---- MODULE Spec2Model ----
(***************************************************************************)
(* Background job processing of the task-management backend: the          *)
(* 'task-processing' queue, its producers' job options, the worker        *)
(* (TaskProcessorService.process) and its error classifier.               *)
(*                                                                         *)
(* The queue runtime is BullMQ.  The worker hands it exactly two things:  *)
(* a normal return of process(), or a thrown Error.  Everything the       *)
(* runtime decides (retry, backoff delay, final failure) is decided from  *)
(* the job's options and attemptsMade; the worker's classification is     *)
(* only logged and never reaches the runtime.                             *)
(***************************************************************************)
EXTENDS Integers, Sequences, FiniteSets, TLC

VARIABLES
    jobs,          \* the queue: job slot -> job record (state, opts, attemptsMade, ...)
    jobMetrics,    \* TaskProcessorService.jobMetrics
    queueMetrics,  \* the last answer of TaskProcessorService.getMetrics
    errorMessage,  \* classifier harness: the failure message under classification
    errorInfo,     \* classifier harness: the result of categorizeError, or NoInfo
    limiter,       \* the worker's rate-limit key: jobs counted, ms before it expires
    running,       \* rate-limit model: jobs taken by the worker and not yet finished
    recent,        \* rate-limit model: the dequeues of the last 60000 ms, by age
    store,         \* the tasks table: task id -> [dueDate, status]
    clock,         \* Date.now()
    scans,         \* the runs of checkOverdueTasks: run -> its locals and its position
    thisProcessBatch,  \* this.processBatch: the runs whose wrapper is installed, outermost first
    overdueQueue,  \* the waiting overdue jobs, by job id <<task id, Date.now() of the add>>
    faults,        \* scan model: failures of the database or of the queue so far
    overdueBy,     \* duration harness: now - dueDate (ms) and its rendering, or NoText
    tx,            \* the calls of the mutations of the task: call -> its transaction and its steps
    rows,          \* the committed row of the task
    cache,         \* the keyspace of the Redis server: stored name -> entry
    reader,        \* the calls of the cached reads: call -> its getOrSet and its steps
    reply          \* cache harness: the last direct call of the cache service and its result

queueVars   == <<jobs, jobMetrics, queueMetrics, errorMessage, errorInfo>>
limiterVars == <<limiter, running, recent>>
scanVars    == <<store, clock, scans, thisProcessBatch, overdueQueue, faults>>
mutationVars == <<tx, rows, cache, reader, reply>>

\* what the job model leaves alone
outsideQueue == <<limiterVars, scanVars, overdueBy, mutationVars>>

vars == <<queueVars, limiterVars, scanVars, overdueBy, mutationVars>>

(***************************************************************************)
(* Bounds of the model                                                     *)
(***************************************************************************)
MaxJobs     == 1     \* job slots of the retry model
MaxPoolJobs == 6     \* job slots of the worker-pool model (more than the concurrency)
MaxPriorityJobs == 2 \* job slots of the priority model
MaxMsgLen   == 2     \* tokens per failure message in the classifier model
MaxProcTime == 1     \* largest Date.now() - startTime of one execution (ms)
TickMs      == 1000  \* time that passes in one step of the clock
LimiterTickMs == 30000  \* time that passes in one step of the rate-limit model
MaxFullPages == 2    \* full pages of overdue records in the tasks table
MaxRescanPages == 1  \* full pages of overdue records where scans follow each other
MaxRuns     == 1     \* runs of the overdue scan that are in progress at a time
MaxOverlap  == 2     \* runs of the overdue scan that overlap in the model of overlapping runs
MaxClock    == 1     \* last instant of the scan model's clock
MaxOverdueHours == 49 \* longest overdue duration of the duration harness (hours)
MaxVersion  == 2     \* committed writes of the task's row
MaxFaults   == 1     \* failures of the database or of the queue in one behaviour of the scan model
MaxMutators == 2     \* calls of the mutations that are in progress at a time
MaxCallers  == 2     \* calls of the cached reads that are in progress at a time
MaxValue    == 1     \* values that the cache harness stores directly
MaxTtl      == 2     \* largest ttl option of the cache harness (seconds)
MaxAge      == 3     \* seconds after its set through which the harness follows an entry

(***************************************************************************)
(* Program constants                                                       *)
(***************************************************************************)
Concurrency          == 5      \* @Processor(..., { concurrency: 5 })
MutationAttempts     == 3      \* attempts: 3
MutationBackoffDelay == 2000   \* backoff.delay of the mutation producers
MAX_RETRIES          == 3      \* OverdueTasksService.MAX_RETRIES
OverdueBackoffDelay  == 5000   \* backoff.delay of the overdue producer
OverduePriority      == 10     \* priority of the overdue producer
LimiterMax           == 100    \* limiter.max
BATCH_SIZE           == 100    \* OverdueTasksService.BATCH_SIZE
LimiterDuration      == 60000  \* limiter.duration (ms)
defaultTtl           == 300    \* RedisCacheService.defaultTtl (seconds)

(***************************************************************************)
(* Failure messages.  A message is a sequence of tokens; a token is a     *)
(* piece of text that either is one of the substrings the classifier      *)
(* searches for, or contains none of them.  String.includes is            *)
(* case-sensitive, so "Invalid" and "Unknown" contain no signal.          *)
(***************************************************************************)
Signals ==
    { "database", "connection", "timeout", "ECONNREFUSED",
      "validation", "required", "invalid",
      "not found", "does not exist",
      "network", "ENOTFOUND", "ETIMEDOUT" }

NeutralTokens == { "Task", "Invalid" }

Vocabulary == Signals \cup NeutralTokens

includes(msg, s) == \E i \in 1..Len(msg) : msg[i] = s

RECURSIVE SeqsUpTo(_, _)
SeqsUpTo(S, n) ==
    IF n = 0 THEN { <<>> }
    ELSE LET shorter == SeqsUpTo(S, n - 1)
         IN  shorter \cup { Append(m, t) : m \in shorter, t \in S }

Messages == SeqsUpTo(Vocabulary, MaxMsgLen)

NoInfo == [type |-> "none", isRetryable |-> FALSE, category |-> "none"]

\* mutant: the network group is tested before the validation group
categorizeError_NetworkFirst(msg) ==
    IF \/ includes(msg, "database")
       \/ includes(msg, "connection")
       \/ includes(msg, "timeout")
       \/ includes(msg, "ECONNREFUSED")
    THEN [type |-> "DatabaseError", isRetryable |-> TRUE, category |-> "infrastructure"]
    ELSE IF \/ includes(msg, "network")
            \/ includes(msg, "ENOTFOUND")
            \/ includes(msg, "ETIMEDOUT")
    THEN [type |-> "NetworkError", isRetryable |-> TRUE, category |-> "infrastructure"]
    ELSE IF \/ includes(msg, "validation")
            \/ includes(msg, "required")
            \/ includes(msg, "invalid")
    THEN [type |-> "ValidationError", isRetryable |-> FALSE, category |-> "client"]
    ELSE IF \/ includes(msg, "not found")
            \/ includes(msg, "does not exist")
    THEN [type |-> "NotFoundError", isRetryable |-> FALSE, category |-> "client"]
    ELSE [type |-> "UnknownError", isRetryable |-> TRUE, category |-> "unknown"]

(***************************************************************************)
(* categorizeError: the first group whose signal occurs in the message    *)
(* decides.                                                                *)
(***************************************************************************)
categorizeError(msg) ==
    IF \/ includes(msg, "database")
       \/ includes(msg, "connection")
       \/ includes(msg, "timeout")
       \/ includes(msg, "ECONNREFUSED")
    THEN [type |-> "DatabaseError", isRetryable |-> TRUE, category |-> "infrastructure"]
    ELSE IF \/ includes(msg, "validation")
            \/ includes(msg, "required")
            \/ includes(msg, "invalid")
    THEN [type |-> "ValidationError", isRetryable |-> FALSE, category |-> "client"]
    ELSE IF \/ includes(msg, "not found")
            \/ includes(msg, "does not exist")
    THEN [type |-> "NotFoundError", isRetryable |-> FALSE, category |-> "client"]
    ELSE IF \/ includes(msg, "network")
            \/ includes(msg, "ENOTFOUND")
            \/ includes(msg, "ETIMEDOUT")
    THEN [type |-> "NetworkError", isRetryable |-> TRUE, category |-> "infrastructure"]
    ELSE [type |-> "UnknownError", isRetryable |-> TRUE, category |-> "unknown"]

(***************************************************************************)
(* Jobs                                                                    *)
(***************************************************************************)
KnownNames == { "task-status-update", "task-created", "overdue-tasks-notification" }

\* every name a producer of the repository passes to taskQueue.add
JobNames == KnownNames \cup { "task-deleted" }

\* job.data, by the truthiness of the fields the worker reads
Data(p, t, s, ti, d) ==
    [present |-> p, taskId |-> t, status |-> s, title |-> ti, dueDate |-> d]

NoData       == Data(FALSE, FALSE, FALSE, FALSE, FALSE)
MutationData == Data(TRUE, TRUE, TRUE, FALSE, FALSE)    \* { taskId, status }
DeletedData  == Data(TRUE, TRUE, FALSE, FALSE, FALSE)   \* { taskId, deletedAt }
OverdueData  == Data(TRUE, TRUE, TRUE, TRUE, TRUE)      \* { taskId, title, dueDate, status, ... }

Payloads ==
    { NoData, MutationData, DeletedData, OverdueData,
      Data(TRUE, FALSE, TRUE, TRUE, TRUE),     \* no taskId
      Data(TRUE, TRUE, TRUE, FALSE, TRUE),     \* no title
      Data(TRUE, TRUE, TRUE, TRUE, FALSE) }    \* no dueDate

NoOutcome ==
    [result |-> "none", handler |-> "none", branch |-> "none", info |-> NoInfo]

NoJob ==
    [state |-> "None", name |-> "none", data |-> NoData,
     attempts |-> 0, backoff |-> 0, priority |-> 0,
     attemptsMade |-> 0, delayLeft |-> 0, runs |-> 0, last |-> NoOutcome]

NewJob(name, data, attempts, backoff, priority) ==
    [NoJob EXCEPT !.state = "Pending", !.name = name, !.data = data,
                  !.attempts = attempts, !.backoff = backoff, !.priority = priority]

(***************************************************************************)
(* validateJobData                                                         *)
(***************************************************************************)
RECURSIVE Join(_)
Join(errors) ==
    IF Len(errors) = 0 THEN <<>>
    ELSE IF Len(errors) = 1 THEN errors[1]
    ELSE errors[1] \o <<", ">> \o Join(Tail(errors))

Need(missing, text) == IF missing THEN << text >> ELSE <<>>

validateJobData(job) ==
    LET errors ==
          IF ~job.data.present THEN << <<"Job data is missing">> >>
          ELSE IF job.name = "task-status-update" THEN
                 Need(~job.data.taskId, <<"taskId is ", "required", " for status update">>)
                 \o Need(~job.data.status, <<"status is ", "required", " for status update">>)
          ELSE IF job.name = "task-created" THEN
                 Need(~job.data.taskId, <<"taskId is ", "required", " for task creation">>)
          ELSE IF job.name = "overdue-tasks-notification" THEN
                 Need(~job.data.taskId, <<"taskId is ", "required", " for overdue notification">>)
                 \o Need(~job.data.title, <<"title is ", "required", " for overdue notification">>)
                 \o Need(~job.data.dueDate, <<"dueDate is ", "required", " for overdue notification">>)
          ELSE <<>>
    IN  [isValid |-> Len(errors) = 0, errors |-> errors]

(***************************************************************************)
(* Handlers.  svc is what the handler's awaited call does: it returns,    *)
(* or it throws an error with a message.                                   *)
(***************************************************************************)
Returned == [ok |-> TRUE, message |-> <<>>]
Threw(msg) == [ok |-> FALSE, message |-> msg]

\* outcomes of tasksService.updateStatus / of the notification body
ServiceErrors ==
    { <<"Task ", "not found">>,              \* NotFoundException('Task not found')
      <<"connect ", "ECONNREFUSED">>,        \* store unreachable
      <<"getaddrinfo ", "ENOTFOUND">>,       \* host lookup failed
      <<"deadlock detected">> }              \* no signal of the classifier

ServiceOutcomes == { Returned } \cup { Threw(m) : m \in ServiceErrors }

handleStatusUpdate(job, svc) ==
    IF ~job.data.taskId THEN Threw(<<"Task ID is ", "required">>)
    ELSE IF ~job.data.status THEN Threw(<<"Status is ", "required">>)
    ELSE IF svc.ok THEN Returned
    ELSE Threw(<<"Failed to update task status: ">> \o svc.message)

handleTaskCreated(job, svc) == Returned

handleOverdueTasks(job, svc) ==
    IF svc.ok THEN Returned
    ELSE Threw(<<"Failed to process overdue notification: ">> \o svc.message)

(***************************************************************************)
(* process(job): one execution attempt.  The result is what the queue     *)
(* runtime observes (result: "returned" or "thrown") together with what   *)
(* the worker logged (handler, branch, info) and the metrics it leaves.   *)
(***************************************************************************)
\* mutant: the `|| 1` default of maxAttempts dropped
jobContext_NoDefault(job) ==
    [attemptNumber |-> job.attemptsMade + 1, maxAttempts |-> job.attempts]

jobContext(job) ==
    [attemptNumber |-> job.attemptsMade + 1,
     maxAttempts   |-> IF job.attempts # 0 THEN job.attempts ELSE 1]

\* the try block up to the end of the switch
Attempt(job, svc) ==
    LET validationResult == validateJobData(job)
    IN  IF ~validationResult.isValid
        THEN [handler |-> "notInvoked",
              run |-> Threw(<<"Job ", "validation", " failed: ">>
                            \o Join(validationResult.errors))]
        ELSE IF job.name = "task-status-update"
        THEN [handler |-> "invoked", run |-> handleStatusUpdate(job, svc)]
        ELSE IF job.name = "task-created"
        THEN [handler |-> "invoked", run |-> handleTaskCreated(job, svc)]
        ELSE IF job.name = "overdue-tasks-notification"
        THEN [handler |-> "invoked", run |-> handleOverdueTasks(job, svc)]
        ELSE [handler |-> "notInvoked",
              run |-> Threw(<<"Unknown job type: ", job.name>>)]

\* the branch of the catch block; every branch ends in `throw error`
RetryBranch(info, ctx) ==
    IF info.isRetryable /\ ctx.attemptNumber < ctx.maxAttempts THEN "retry"
    ELSE IF ~info.isRetryable THEN "non-retryable"
    ELSE "exhausted"

\* mutant: the non-retryable branch swallows the error
Rethrow_SwallowNonRetryable(branch) ==
    IF branch = "non-retryable" THEN "returned" ELSE "thrown"

\* what each branch of the catch block hands to the queue runtime:
\* all three end in `throw error`
Rethrow(branch) == "thrown"

process(job, svc, processingTime, metrics) ==
    LET a       == Attempt(job, svc)
        ctx     == jobContext(job)
        handler == IF a.handler = "notInvoked" THEN "notInvoked"
                   ELSE IF a.run.ok THEN "ok" ELSE "failed"
    IN  IF a.run.ok
        THEN [result  |-> "returned",
              handler |-> handler,
              branch  |-> "none",
              info    |-> NoInfo,
              metrics |-> [metrics EXCEPT
                             !.processed = @ + 1,
                             !.totalProcessingTime = @ + processingTime]]
        ELSE LET info   == categorizeError(a.run.message)
                 branch == RetryBranch(info, ctx)
             IN  [result  |-> Rethrow(branch),
                  handler |-> handler,
                  branch  |-> branch,
                  info    |-> info,
                  metrics |-> [metrics EXCEPT !.failed = @ + 1]]

(***************************************************************************)
(* Producers: the jobs the repository passes to taskQueue.add              *)
(***************************************************************************)
\* TasksService.create / update / bulkUpdateStatus
statusUpdateJob ==
    NewJob("task-status-update", MutationData, MutationAttempts, MutationBackoffDelay, 0)

\* TasksService.bulkCreate
taskCreatedJob ==
    NewJob("task-created", MutationData, MutationAttempts, MutationBackoffDelay, 0)

\* TasksService.bulkDelete
taskDeletedJob ==
    NewJob("task-deleted", DeletedData, MutationAttempts, MutationBackoffDelay, 0)

\* mutant: the overdue producer uses the mutation producers' base delay
overdueJob_ShortDelay ==
    NewJob("overdue-tasks-notification", OverdueData, MAX_RETRIES, MutationBackoffDelay,
           OverduePriority)

\* OverdueTasksService.processBatch
overdueJob ==
    NewJob("overdue-tasks-notification", OverdueData, MAX_RETRIES, OverdueBackoffDelay,
           OverduePriority)

ProducerJobs == { statusUpdateJob, taskCreatedJob, taskDeletedJob, overdueJob }

\* Jobs put on the queue by any other client of the broker: a payload that
\* is invalid for the job's kind, or a producer's job with attempts unset (0).
BackoffOf(name) ==
    IF name = "overdue-tasks-notification" THEN OverdueBackoffDelay ELSE MutationBackoffDelay

MalformedJobs ==
    { job \in { NewJob(n, d, MutationAttempts, BackoffOf(n), 0) : n \in JobNames, d \in Payloads } :
        ~validateJobData(job).isValid }

ForeignJobs ==
    MalformedJobs \cup { [job EXCEPT !.attempts = 0] : job \in ProducerJobs }

(***************************************************************************)
(* The queue runtime                                                       *)
(***************************************************************************)
Slots == DOMAIN jobs

Active == { j \in Slots : jobs[j].state = "Active" }

FreeSlots == { j \in Slots : jobs[j].state = "None" }

RECURSIVE Pow2(_)
Pow2(n) == IF n = 0 THEN 1 ELSE 2 * Pow2(n - 1)

\* exponential backoff: delay * 2^(attempts already made before this failure)
BackoffDelay(job) == job.backoff * Pow2(job.attemptsMade)

\* a thrown error is retried while attempts remain; the runtime sees the
\* error and job.opts, never the worker's classification
RuntimeRetries(job) == job.attemptsMade + 1 < job.attempts

\* the runtime's move of an Active job once process() has ended
Finished(job, r) ==
    IF r.result = "returned"
    THEN [job EXCEPT !.state = "Completed", !.attemptsMade = @ + 1]
    ELSE IF RuntimeRetries(job)
    THEN [job EXCEPT !.state = "Pending", !.attemptsMade = @ + 1,
                     !.delayLeft = BackoffDelay(job)]
    ELSE [job EXCEPT !.state = "Failed", !.attemptsMade = @ + 1]

Outcome(r) == [result |-> r.result, handler |-> r.handler, branch |-> r.branch, info |-> r.info]

(***************************************************************************)
(* Actions                                                                 *)
(***************************************************************************)
Add(j, job) ==
    /\ j \in FreeSlots
    /\ \A i \in FreeSlots : j <= i
    /\ jobs' = [jobs EXCEPT ![j] = job]
    /\ UNCHANGED <<jobMetrics, errorMessage, errorInfo, queueMetrics, outsideQueue>>

\* a producer of the repository enqueues a job
Produce == \E j \in Slots, job \in ProducerJobs : Add(j, job)

\* another client of the broker enqueues a job
AddForeign == \E j \in Slots, job \in ForeignJobs : Add(j, job)

\* TasksService.bulkCreate: one task-created job per created task
BulkCreate ==
    \E n \in 1..Cardinality(FreeSlots) :
        LET chosen == { j \in FreeSlots : Cardinality({ i \in FreeSlots : i < j }) < n }
        IN  /\ jobs' = [j \in Slots |-> IF j \in chosen THEN taskCreatedJob ELSE jobs[j]]
            /\ UNCHANGED <<jobMetrics, errorMessage, errorInfo, queueMetrics, outsideQueue>>

\* mutant: a job put back after a failure is never taken again
\* job i is served before job j: the runtime serves the ready jobs that were
\* added without a priority (0) first, then the others by ascending priority
Ahead(i, j) ==
    /\ jobs[i].state = "Pending"
    /\ jobs[i].delayLeft = 0
    /\ jobs[i].priority < jobs[j].priority

Dequeue_FirstAttemptOnly(j) ==
    /\ jobs[j].state = "Pending"
    /\ jobs[j].attemptsMade = 0
    /\ jobs[j].delayLeft = 0
    /\ Cardinality(Active) < Concurrency
    /\ \A i \in Slots : ~Ahead(i, j)
    /\ jobs' = [jobs EXCEPT ![j].state = "Active", ![j].runs = @ + 1]
    /\ UNCHANGED <<jobMetrics, errorMessage, errorInfo, queueMetrics, outsideQueue>>

\* mutant: the concurrency limit is not applied
Dequeue_NoLimit(j) ==
    /\ jobs[j].state = "Pending"
    /\ jobs[j].delayLeft = 0
    /\ \A i \in Slots : ~Ahead(i, j)
    /\ jobs' = [jobs EXCEPT ![j].state = "Active", ![j].runs = @ + 1]
    /\ UNCHANGED <<jobMetrics, errorMessage, errorInfo, queueMetrics, outsideQueue>>

\* the worker takes a Pending job whose delay has elapsed, if a slot is free
\* and no ready job is ahead of it.  The order among ready jobs of the same
\* priority is left open.  The limiter (100 jobs per 60000 ms) cannot bind in
\* the job model: a job is taken at most maxAttempts times, so fewer than 100
\* jobs are taken in any run of it.
Dequeue(j) ==
    /\ jobs[j].state = "Pending"
    /\ jobs[j].delayLeft = 0
    /\ Cardinality(Active) < Concurrency
    /\ \A i \in Slots : ~Ahead(i, j)
    /\ jobs' = [jobs EXCEPT ![j].state = "Active", ![j].runs = @ + 1]
    /\ UNCHANGED <<jobMetrics, errorMessage, errorInfo, queueMetrics, outsideQueue>>

\* process(job) ends and the runtime moves the job
Process(j) ==
    /\ jobs[j].state = "Active"
    /\ \E svc \in ServiceOutcomes, processingTime \in 0..MaxProcTime :
          LET r == process(jobs[j], svc, processingTime, jobMetrics)
          IN  /\ jobMetrics' = r.metrics
              /\ jobs' = [jobs EXCEPT ![j] = [Finished(jobs[j], r) EXCEPT !.last = Outcome(r)]]
    /\ UNCHANGED <<errorMessage, errorInfo, queueMetrics, outsideQueue>>

\* getMetrics(): the counters, the rounded mean time of a processed job and
\* the share of the processed jobs among the finished executions.  successRate
\* is the number that toFixed(2) prints, in hundredths of a percent ('0%' is
\* 0); Math.round and toFixed round a half upwards.
GetMetrics ==
    LET processed == jobMetrics.processed
        failed    == jobMetrics.failed
        total     == jobMetrics.totalProcessingTime
    IN  /\ queueMetrics' =
              [processed |-> processed,
               failed    |-> failed,
               totalProcessingTime   |-> total,
               averageProcessingTime |->
                   IF processed > 0 THEN (2 * total + processed) \div (2 * processed) ELSE 0,
               successRate |->
                   IF processed > 0
                   THEN (20000 * processed + (processed + failed)) \div (2 * (processed + failed))
                   ELSE 0]
        /\ UNCHANGED <<jobs, jobMetrics, errorMessage, errorInfo, outsideQueue>>

\* mutant: the count of the failed executions outlives the reset
ResetMetrics_KeepsFailed ==
    /\ jobMetrics' = [jobMetrics EXCEPT !.processed = 0, !.totalProcessingTime = 0]
    /\ UNCHANGED <<jobs, queueMetrics, errorMessage, errorInfo, outsideQueue>>

\* resetMetrics()
ResetMetrics ==
    /\ jobMetrics' = [jobMetrics EXCEPT !.processed = 0, !.failed = 0,
                                        !.totalProcessingTime = 0]
    /\ UNCHANGED <<jobs, queueMetrics, errorMessage, errorInfo, outsideQueue>>

\* time passes
Tick ==
    /\ \E j \in Slots : jobs[j].delayLeft > 0
    /\ jobs' = [j \in Slots |->
                  [jobs[j] EXCEPT !.delayLeft = IF @ > TickMs THEN @ - TickMs ELSE 0]]
    /\ UNCHANGED <<jobMetrics, errorMessage, errorInfo, queueMetrics, outsideQueue>>

\* classifier harness: classify the message, then take another message
Categorize ==
    /\ errorInfo = NoInfo
    /\ errorInfo' = categorizeError(errorMessage)
    /\ UNCHANGED <<jobs, jobMetrics, errorMessage, queueMetrics, outsideQueue>>

NextMessage ==
    /\ errorInfo # NoInfo
    /\ errorMessage' \in Messages
    /\ errorInfo' = NoInfo
    /\ UNCHANGED <<jobs, jobMetrics, queueMetrics, outsideQueue>>

(***************************************************************************)
(* The rate limit of the worker: limiter { max: 100, duration: 60000 }.   *)
(* The runtime counts the jobs it hands to the worker in a key that       *)
(* expires 'duration' ms after the first job counted in it; while the key *)
(* lives and holds 'max', no job is handed over.  The jobs of this model  *)
(* are anonymous: a backlog is always waiting, 'running' counts the jobs  *)
(* the worker holds, 'recent' remembers how many jobs were taken at each  *)
(* instant of the last 'duration' ms (newest first).                      *)
(***************************************************************************)
RECURSIVE Sum(_)
Sum(buckets) ==
    IF buckets = <<>> THEN 0 ELSE Head(buckets).count + Sum(Tail(buckets))

\* the jobs taken in the 60000 ms that end now
TakenInLastDuration == Sum(recent)

\* the jobs taken since the living rate-limit key was created
TakenInWindow ==
    Sum(SelectSeq(recent, LAMBDA b : b.age <= LimiterDuration - limiter.ttl))

\* the worker takes a job whatever the key holds
LimitedDequeue_Unlimited ==
    /\ running < Concurrency
    /\ limiter' = IF limiter.ttl = 0
                  THEN [count |-> 1, ttl |-> LimiterDuration]
                  ELSE [limiter EXCEPT !.count = @ + 1]
    /\ running' = running + 1
    /\ recent' = <<[Head(recent) EXCEPT !.count = @ + 1]>> \o Tail(recent)
    /\ UNCHANGED <<queueVars, scanVars, overdueBy, mutationVars>>

\* the worker takes a job of the backlog: a slot is free and the key is
\* expired (this job creates it) or holds fewer than 'max'
LimitedDequeue ==
    /\ running < Concurrency
    /\ limiter.ttl = 0 \/ limiter.count < LimiterMax
    /\ limiter' = IF limiter.ttl = 0
                  THEN [count |-> 1, ttl |-> LimiterDuration]
                  ELSE [limiter EXCEPT !.count = @ + 1]
    /\ running' = running + 1
    /\ recent' = <<[Head(recent) EXCEPT !.count = @ + 1]>> \o Tail(recent)
    /\ UNCHANGED <<queueVars, scanVars, overdueBy, mutationVars>>

\* a job of the worker ends
LimitedFinish ==
    /\ running > 0
    /\ running' = running - 1
    /\ UNCHANGED <<limiter, recent, queueVars, scanVars, overdueBy, mutationVars>>

\* time passes: the key ages and expires, the dequeues older than
\* 'duration' are forgotten
LimiterTick ==
    /\ limiter' = [limiter EXCEPT !.ttl = IF @ > LimiterTickMs THEN @ - LimiterTickMs ELSE 0]
    /\ recent' = <<[age |-> 0, count |-> 0]>> \o
                 SelectSeq([i \in 1..Len(recent) |->
                               [recent[i] EXCEPT !.age = @ + LimiterTickMs]],
                           LAMBDA b : b.age < LimiterDuration)
    /\ UNCHANGED <<running, queueVars, scanVars, overdueBy, mutationVars>>

(***************************************************************************)
(* The overdue scan (OverdueTasksService).  The tasks table maps a task   *)
(* id to its due date and status.  A run of checkOverdueTasks is a record *)
(* of its locals; 'scheduled' runs are started by the cron trigger,       *)
(* 'manual' runs by triggerOverdueCheck, which installs a counting        *)
(* wrapper in this.processBatch for the time of its run.                  *)
(***************************************************************************)
Runs == DOMAIN scans

Range(seq) == { seq[k] : k \in DOMAIN seq }

\* a tasks table with n overdue tasks that are still to do (the lower the id,
\* the earlier it was due) and four others: one due exactly at instant 0, one
\* completed long ago, one overdue and completed, one due after the last instant
StoreOf(n) ==
    [i \in 1..(n + 4) |->
        IF i <= n THEN [dueDate |-> i - n - 1,
                        status |-> IF i % 2 = 0 THEN "PENDING" ELSE "IN_PROGRESS"]
        ELSE IF i = n + 1 THEN [dueDate |-> 0, status |-> "PENDING"]
        ELSE IF i = n + 2 THEN [dueDate |-> 0 - (n + 2), status |-> "COMPLETED"]
        ELSE IF i = n + 3 THEN [dueDate |-> 0 - 1, status |-> "COMPLETED"]
        ELSE [dueDate |-> MaxClock + 1, status |-> "IN_PROGRESS"]]

StoreRemainders == { 0, 1, 50 }

NoScan ==
    [ pc |-> "idle", kind |-> "none", now |-> 0, offset |-> 0,
      totalProcessed |-> 0, totalQueued |-> 0, page |-> <<>>,
      fetches |-> 0, fetched |-> 0, enqueued |-> <<>>, lastFailed |-> {},
      original |-> <<>>, counters |-> [processed |-> 0, queued |-> 0],
      result |-> [processed |-> 0 - 1, queued |-> 0 - 1],
      outcome |-> "none", raised |-> FALSE, previous |-> "none" ]

\* where: { dueDate: LessThan(now), status: In([PENDING, IN_PROGRESS]) }
Overdue(id, cutoff) ==
    /\ store[id].dueDate < cutoff
    /\ store[id].status \in { "PENDING", "IN_PROGRESS" }

\* mutant: the cutoff itself counts as overdue
find_UpToCutoff(cutoff, skip) ==
    LET ids == [i \in 1..Len(store) |-> i]
        matching == SelectSeq(ids, LAMBDA id :
                        /\ store[id].dueDate <= cutoff
                        /\ store[id].status \in { "PENDING", "IN_PROGRESS" })
        ordered == SortSeq(matching, LAMBDA a, b :
                        \/ store[a].dueDate < store[b].dueDate
                        \/ store[a].dueDate = store[b].dueDate /\ a < b)
        last == IF skip + BATCH_SIZE < Len(ordered) THEN skip + BATCH_SIZE ELSE Len(ordered)
    IN  SubSeq(ordered, skip + 1, last)

\* tasksRepository.find({ where, take: BATCH_SIZE, skip, order: { dueDate: 'ASC' } }):
\* the ids of one page (rows with the same due date come in the order of their ids)
find(cutoff, skip) ==
    LET ids == [i \in 1..Len(store) |-> i]
        matching == SelectSeq(ids, LAMBDA id : Overdue(id, cutoff))
        ordered == SortSeq(matching, LAMBDA a, b :
                        \/ store[a].dueDate < store[b].dueDate
                        \/ store[a].dueDate = store[b].dueDate /\ a < b)
        last == IF skip + BATCH_SIZE < Len(ordered) THEN skip + BATCH_SIZE ELSE Len(ordered)
    IN  SubSeq(ordered, skip + 1, last)

\* mutant: the first failing add ends the batch
processBatch_StopAtFailure(page, failing) ==
    LET bad == { k \in DOMAIN page : page[k] \in failing }
        ok  == SelectSeq(page, LAMBDA id :
                   \A k \in bad : \E h \in 1..(k - 1) : page[h] = id)
    IN  [queuedCount |-> Len(ok), added |-> ok]

\* processBatch(overdueTasks): every task is added to the queue in its own
\* try/catch; 'failing' are the tasks whose add rejects
processBatch(page, failing) ==
    LET ok == SelectSeq(page, LAMBDA id : id \notin failing)
    IN  [queuedCount |-> Len(ok), added |-> ok]

\* mutant: the wrapper counts the batches only
wrapper_CountsBatches(counters, length, queued) ==
    [processed |-> counters.processed + 1, queued |-> counters.queued + queued]

\* the wrapper that triggerOverdueCheck puts around processBatch
wrapper(counters, length, queued) ==
    [processed |-> counters.processed + length, queued |-> counters.queued + queued]

\* mutant: a short page does not end the loop
hasMoreTasks_AfterShortPage(length) == TRUE

\* the loop goes on after a batch unless the page was short
hasMoreTasks(length) == ~(length < BATCH_SIZE)

\* mutant: the top-level catch rethrows
catch_Rethrows == "rethrown"

\* the top-level catch of checkOverdueTasks logs the error and returns
catch == "logged"

\* the run ends: checkOverdueTasks returns, triggerOverdueCheck returns its
\* counters and puts back the processBatch it found
Finish(all, r, run, outcome) ==
    /\ scans' = [all EXCEPT ![r] =
                    [run EXCEPT !.pc = "done", !.page = <<>>, !.outcome = outcome,
                                !.raised = (outcome = "failed" /\ catch = "rethrown"),
                                !.result = IF run.kind = "manual"
                                           THEN all[r].counters ELSE @]]
    /\ thisProcessBatch' = IF run.kind = "manual" THEN run.original ELSE thisProcessBatch

\* the cron trigger calls checkOverdueTasks, or the admin endpoint calls
\* triggerOverdueCheck; the locals of an ended run are gone
StartScan(r, kind) ==
    /\ scans[r].pc \in { "idle", "done" }
    /\ scans' = [scans EXCEPT ![r] =
                    [NoScan EXCEPT !.pc = "fetching", !.kind = kind, !.now = clock,
                                   !.previous = scans[r].outcome,
                                   !.offset = 0, !.totalProcessed = 0, !.totalQueued = 0,
                                   !.original = thisProcessBatch]]
    /\ thisProcessBatch' = IF kind = "manual" THEN <<r>> \o thisProcessBatch ELSE thisProcessBatch
    /\ UNCHANGED <<store, clock, overdueQueue, faults, queueVars, limiterVars, overdueBy, mutationVars>>

\* one turn of the loop up to the batch: the page is fetched; the fetch may
\* throw, and an empty page ends the run
Fetch(r) ==
    /\ scans[r].pc = "fetching"
    /\ \E throws \in IF faults < MaxFaults THEN BOOLEAN ELSE { FALSE } :
          LET run  == [scans[r] EXCEPT !.fetches = @ + 1]
              page == find(run.now, run.offset)
          IN  /\ faults' = IF throws THEN faults + 1 ELSE faults
              /\ IF throws THEN Finish(scans, r, run, "failed")
                 ELSE IF Len(page) = 0 THEN Finish(scans, r, run, "completed")
                 ELSE /\ scans' = [scans EXCEPT ![r] =
                                     [run EXCEPT !.pc = "batching", !.page = page,
                                                 !.fetched = @ + Len(page)]]
                      /\ UNCHANGED thisProcessBatch
    /\ UNCHANGED <<store, clock, overdueQueue, queueVars, limiterVars, overdueBy, mutationVars>>

\* the rest of the turn: this.processBatch(page), through the installed
\* wrappers, then the totals, the offset and the end of the loop
ProcessBatch(r) ==
    /\ scans[r].pc = "batching"
    /\ \E failing \in IF faults < MaxFaults
                       THEN { {}, { scans[r].page[1] }, Range(scans[r].page) }
                       ELSE { {} } :
          LET page == scans[r].page
              res  == processBatch(page, failing)
              all  == [q \in Runs |->
                         IF q \in Range(thisProcessBatch)
                         THEN [scans[q] EXCEPT !.counters =
                                  wrapper(@, Len(page), res.queuedCount)]
                         ELSE scans[q]]
              run  == [all[r] EXCEPT !.totalProcessed = @ + Len(page),
                                     !.totalQueued = @ + res.queuedCount,
                                     !.offset = @ + BATCH_SIZE,
                                     !.enqueued = @ \o res.added,
                                     !.lastFailed = failing]
          IN  /\ overdueQueue' = overdueQueue \cup { <<id, clock>> : id \in Range(res.added) }
              /\ faults' = IF failing = {} THEN faults ELSE faults + 1
              /\ IF hasMoreTasks(Len(page))
                 THEN /\ scans' = [all EXCEPT ![r] = [run EXCEPT !.pc = "fetching", !.page = <<>>]]
                      /\ UNCHANGED thisProcessBatch
                 ELSE Finish(all, r, run, "completed")
    /\ UNCHANGED <<store, clock, queueVars, limiterVars, overdueBy, mutationVars>>

\* TasksService.updateStatus(id, status) on a task of the table, while a
\* scan is between two of its awaits
StoreUpdateStatus(id, status) ==
    /\ id \in DOMAIN store
    /\ store[id].status # status
    /\ store' = [store EXCEPT ![id].status = status]
    /\ UNCHANGED <<clock, scans, thisProcessBatch, overdueQueue, faults, queueVars, limiterVars, overdueBy, mutationVars>>

\* time passes
ScanTick ==
    /\ clock < MaxClock
    /\ clock' = clock + 1
    /\ UNCHANGED <<store, scans, thisProcessBatch, overdueQueue, faults, queueVars, limiterVars, overdueBy, mutationVars>>

(***************************************************************************)
(* calculateOverdueDuration.  The text is `${count} ${unit}`; it is       *)
(* modelled as the pair of its count and its unit word.                   *)
(***************************************************************************)
NoText == [count |-> 0 - 1, unit |-> "none"]

HourMs == 1000 * 60 * 60

\* diffMs is now.getTime() - dueDate.getTime(); Math.floor of a quotient of
\* integers is \div
calculateOverdueDuration(diffMs) ==
    LET diffHours == diffMs \div HourMs
        diffDays  == diffHours \div 24
    IN  IF diffDays > 0
        THEN [count |-> diffDays,  unit |-> IF diffDays > 1 THEN "days" ELSE "day"]
        ELSE [count |-> diffHours, unit |-> IF diffHours > 1 THEN "hours" ELSE "hour"]

\* the overdue durations of the harness: every whole hour up to the bound and
\* the last millisecond before the next one
Durations ==
    { h * HourMs + e : h \in 0..MaxOverdueHours, e \in { 0, HourMs - 1 } }

Render ==
    /\ overdueBy.text = NoText
    /\ overdueBy' = [overdueBy EXCEPT !.text = calculateOverdueDuration(overdueBy.ms)]
    /\ UNCHANGED <<queueVars, limiterVars, scanVars, mutationVars>>

AnotherDuration ==
    /\ overdueBy.text # NoText
    /\ \E d \in Durations : overdueBy' = [ms |-> d, text |-> NoText]
    /\ UNCHANGED <<queueVars, limiterVars, scanVars, mutationVars>>

(***************************************************************************)
(* RedisCacheService.  A key is the list of the tokens that the ':' of    *)
(* its text separates; the keyspace 'cache' maps the names under which    *)
(* the Redis server holds an entry to the entry.  The service talks to    *)
(* the server through a client constructed with a keyPrefix: the client   *)
(* prepends the prefix to the key arguments of SETEX, GET and DEL, and    *)
(* to nothing else: not to the pattern of KEYS, and not to the names in   *)
(* the reply of KEYS, which are the names the server holds.               *)
(*                                                                         *)
(* An entry is [value, ttl]: the serialized value and the seconds left    *)
(* before the server drops it.  Two more fields record how the entry was  *)
(* written, for the statements about expiry: 'asked' is the ttl option    *)
(* the caller of set passed (0: none) and 'age' the seconds since.        *)
(***************************************************************************)
\* the name under which the server holds what the client is given as key:
\* keyPrefix 'cache:' and the key
Stored(key) == <<"cache">> \o key

\* the JavaScript null, which is what a miss returns
null == [type |-> "null"]

\* KEYS: glob matching, '*' standing for any run of tokens
RECURSIVE Match(_, _)
Match(pattern, name) ==
    IF pattern = <<>> THEN name = <<>>
    ELSE IF Head(pattern) = "*"
         THEN \/ Match(Tail(pattern), name)
              \/ name # <<>> /\ Match(pattern, Tail(name))
    ELSE /\ name # <<>>
         /\ Head(name) = Head(pattern)
         /\ Match(Tail(pattern), Tail(name))

buildKey(key, namespace) == IF namespace # "" THEN <<namespace>> \o key ELSE key

\* what a method of the service hands back: the keyspace it leaves, and its
\* return value or the error it raises
Return(c, result) == [cache |-> c, result |-> result, raised |-> FALSE]

\* mutant: the ttl option is ignored
set_DefaultTtlOnly(c, key, value, options, down) ==
    LET finalKey == Stored(buildKey(key, options.namespace))
        serializedValue == [json |-> value]
        entry == [value |-> serializedValue, ttl |-> defaultTtl,
                  asked |-> options.ttl, age |-> 0]
    IN  IF down THEN Return(c, null)
        ELSE Return([k \in DOMAIN c \cup { finalKey } |->
                        IF k = finalKey THEN entry ELSE c[k]], null)

\* set: SETEX of the serialized value; a failure is logged
set(c, key, value, options, down) ==
    LET finalKey == Stored(buildKey(key, options.namespace))
        ttl == IF options.ttl # 0 THEN options.ttl ELSE defaultTtl
        serializedValue == [json |-> value]
        entry == [value |-> serializedValue, ttl |-> ttl,
                  asked |-> options.ttl, age |-> 0]
    IN  IF down THEN Return(c, null)
        ELSE Return([k \in DOMAIN c \cup { finalKey } |->
                        IF k = finalKey THEN entry ELSE c[k]], null)

\* mutant: a failure of the backend is rethrown
get_Rethrows(c, key, namespace, down) ==
    LET finalKey == Stored(buildKey(key, namespace))
    IN  IF down THEN [cache |-> c, result |-> null, raised |-> TRUE]
        ELSE IF finalKey \notin DOMAIN c THEN Return(c, null)
        ELSE Return(c, c[finalKey].value.json)

\* get: GET and JSON.parse; null when there is no entry or the backend fails
get(c, key, namespace, down) ==
    LET finalKey == Stored(buildKey(key, namespace))
    IN  IF down THEN Return(c, null)
        ELSE IF finalKey \notin DOMAIN c THEN Return(c, null)
        ELSE Return(c, c[finalKey].value.json)

\* delete: DEL of one key; true when the server removed an entry
delete(c, key, namespace, down) ==
    LET finalKey == Stored(buildKey(key, namespace))
        result == IF finalKey \in DOMAIN c THEN 1 ELSE 0
    IN  IF down THEN Return(c, FALSE)
        ELSE Return([k \in DOMAIN c \ { finalKey } |-> c[k]], result > 0)

\* deletePattern: KEYS of the pattern, then DEL of the names in the reply
deletePattern(c, pattern, namespace, down) ==
    LET finalPattern == buildKey(pattern, namespace)
        keys == { name \in DOMAIN c : Match(finalPattern, name) }
        del  == { Stored(name) : name \in keys } \cap DOMAIN c
    IN  IF down \/ keys = {} THEN Return(c, 0)
        ELSE Return([k \in DOMAIN c \ del |-> c[k]], Cardinality(del))

(***************************************************************************)
(* The cached reads of TasksService.  One task, "1", is modelled: 'rows'  *)
(* is its committed row, [version, userId, live]; version counts the      *)
(* committed writes since the start and live says whether the row exists. *)
(* A method is                                                             *)
(* given the row its query would find and yields the arguments it passes  *)
(* to getOrSet: the key, the options, and what its factory does.          *)
(***************************************************************************)
NoRow == [version |-> 0, userId |-> "", status |-> "", live |-> FALSE]

Users == { "u1", "u2" }

Task(row) ==
    [type |-> "Task", version |-> row.version, userId |-> row.userId, status |-> row.status]

\* mutant: one key for the task, whoever asks
findOne_SharedKey(userId, userRole, row) ==
    LET task == row.live /\ (userRole # "admin" => row.userId = userId)
    IN  [cacheKey |-> <<"task", "1">>,
         factory  |-> IF ~task THEN [type |-> "thrown", message |-> "Task not found"]
                      ELSE Task(row),
         options  |-> [ttl |-> 300, namespace |-> "tasks"]]

findOne(userId, userRole, row) ==
    LET cacheKey == IF userRole = "admin" THEN <<"task", "1", "admin">>
                    ELSE <<"task", "1", "user", userId>>
        task == row.live /\ (userRole # "admin" => row.userId = userId)
    IN  [cacheKey |-> cacheKey,
         factory  |-> IF ~task THEN [type |-> "thrown", message |-> "Task not found"]
                      ELSE Task(row),
         options  |-> [ttl |-> 300, namespace |-> "tasks"]]

\* filters.userId is "" when the filters name no user; JSON.stringify leaves
\* an undefined userId out of the key
findAllWithFilters(userId, row) ==
    LET cacheKey == <<"list", "{">>
                    \o (IF userId # "" THEN <<"userId", userId>> ELSE <<>>)
                    \o <<"}">>
        data == IF row.live /\ (userId # "" => row.userId = userId)
                THEN <<Task(row)>> ELSE <<>>
    IN  [cacheKey |-> cacheKey,
         factory  |-> [type |-> "page", data |-> data],
         options  |-> [ttl |-> 180, namespace |-> "tasks"]]

getTaskStatistics(userId, userRole, row) ==
    LET cacheKey == IF userRole = "admin" THEN <<"stats", "global">>
                    ELSE <<"stats", "user", userId>>
        counted == IF row.live /\ (userRole # "admin" => row.userId = userId)
                   THEN <<Task(row)>> ELSE <<>>
    IN  [cacheKey |-> cacheKey,
         factory  |-> [type |-> "stats", data |-> counted],
         options  |-> [ttl |-> 600, namespace |-> "tasks"]]

\* the requests of the controller: the method, the user who asks, and the
\* userId that the filters of a list request name ("" for none).  The
\* controller puts the user's own id into the filters of a list request
\* unless the user is an admin, whose filters go to the service as they are.
Requests ==
    [fn : { "findOne", "findAllWithFilters", "getTaskStatistics" },
     userId : { "a" }, userRole : { "admin" }, filter : { "" }]
    \cup [fn : { "findAllWithFilters" },
          userId : { "a" }, userRole : { "admin" }, filter : Users]
    \cup [fn : { "findOne", "findAllWithFilters", "getTaskStatistics" },
          userId : Users, userRole : { "user" }, filter : { "" }]

Serve(request, row) ==
    CASE request.fn = "findOne" -> findOne(request.userId, request.userRole, row)
      [] request.fn = "findAllWithFilters" ->
            findAllWithFilters(IF request.userRole = "admin" THEN request.filter
                               ELSE request.userId, row)
      [] request.fn = "getTaskStatistics" ->
            getTaskStatistics(request.userId, request.userRole, row)

(***************************************************************************)
(* getOrSet, in the three awaits of its body.  reader[c] is call c of a   *)
(* cached read: its request, where it stands, the value it holds, the     *)
(* calls of its factory, and whether the backend failed under it.         *)
(***************************************************************************)
NoReader == [pc |-> "idle",
             request |-> [fn |-> "none", userId |-> "", userRole |-> "", filter |-> ""],
             value |-> null, computes |-> 0, down |-> FALSE]

\* the result of a direct call is its value (get), whether it deleted
\* (delete) or its count (deletePattern)
NoReply == [op |-> "none", key |-> <<>>, namespace |-> "", value |-> null,
            deleted |-> FALSE, count |-> 0, raised |-> FALSE, down |-> FALSE]

\* const cached = await this.get(key, options.namespace); a hit is returned
GetOrSetGet(c, request) ==
    /\ reader[c].pc \in { "idle", "returned", "raised" }
    /\ \E down \in BOOLEAN :
          LET call == Serve(request, rows)
              cached == get(cache, call.cacheKey, call.options.namespace, down)
              this == [NoReader EXCEPT !.request = request, !.down = down]
          IN  reader' = [reader EXCEPT ![c] =
                  IF cached.raised THEN [this EXCEPT !.pc = "raised"]
                  ELSE IF cached.result # null
                       THEN [this EXCEPT !.pc = "returned", !.value = cached.result]
                  ELSE [this EXCEPT !.pc = "missed"]]
    /\ reply' = NoReply
    /\ UNCHANGED <<tx, rows, cache, queueVars, limiterVars, scanVars, overdueBy>>

\* mutant: a failure of the factory is returned as a value
Factory_ReturnsFailure(c) ==
    /\ reader[c].pc = "missed"
    /\ LET value == Serve(reader[c].request, rows).factory
       IN  reader' = [reader EXCEPT ![c].pc = "computed", ![c].value = value,
                                    ![c].computes = @ + 1]
    /\ reply' = NoReply
    /\ UNCHANGED <<tx, rows, cache, queueVars, limiterVars, scanVars, overdueBy>>

\* const value = await factory(): the query on the committed row; what the
\* factory throws leaves getOrSet
Factory(c) ==
    /\ reader[c].pc = "missed"
    /\ LET value == Serve(reader[c].request, rows).factory
       IN  reader' = [reader EXCEPT ![c].pc = IF value.type = "thrown" THEN "raised"
                                              ELSE "computed",
                                    ![c].value = value,
                                    ![c].computes = @ + 1]
    /\ reply' = NoReply
    /\ UNCHANGED <<tx, rows, cache, queueVars, limiterVars, scanVars, overdueBy>>

\* await this.set(key, value, options); return value
GetOrSetSet(c) ==
    /\ reader[c].pc = "computed"
    /\ \E down \in BOOLEAN :
          LET call == Serve(reader[c].request, rows)
              written == set(cache, call.cacheKey, reader[c].value, call.options, down)
          IN  /\ cache' = written.cache
              /\ reader' = [reader EXCEPT ![c].pc = IF written.raised THEN "raised"
                                                     ELSE "returned",
                                          ![c].down = @ \/ down]
    /\ reply' = NoReply
    /\ UNCHANGED <<tx, rows, queueVars, limiterVars, scanVars, overdueBy>>

(***************************************************************************)
(* The service called directly: the harness of its four operations.       *)
(* 'reply' is the last of these calls and what it gave back, or the       *)
(* seconds that have passed since.                                        *)
(***************************************************************************)
\* the key of the list of every task, under the namespace of the tasks and
\* under another one
HarnessKeys ==
    { [key |-> <<"list", "{", "}">>, namespace |-> ns] : ns \in { "tasks", "users" } }

Replied(op, key, namespace, r, down) ==
    /\ cache' = r.cache
    /\ reply' = [op |-> op, key |-> key, namespace |-> namespace,
                 value   |-> IF op = "get" THEN r.result ELSE null,
                 deleted |-> IF op = "delete" THEN r.result ELSE FALSE,
                 count   |-> IF op = "deletePattern" THEN r.result ELSE 0,
                 raised |-> r.raised, down |-> down]
    /\ UNCHANGED <<tx, rows, reader, queueVars, limiterVars, scanVars, overdueBy>>

\* set of the JavaScript null or of a task
Set(ttls) ==
    \E k \in HarnessKeys, v \in 0..MaxValue, ttl \in ttls, down \in BOOLEAN :
        LET value == IF v = 0 THEN null
                     ELSE [type |-> "Task", version |-> v, userId |-> "u1", status |-> "PENDING"]
        IN  Replied("set", k.key, k.namespace,
                    set(cache, k.key, value, [ttl |-> ttl, namespace |-> k.namespace], down),
                    down)

Get ==
    \E k \in HarnessKeys, down \in BOOLEAN :
        Replied("get", k.key, k.namespace, get(cache, k.key, k.namespace, down), down)

Delete ==
    \E k \in HarnessKeys, down \in BOOLEAN :
        Replied("delete", k.key, k.namespace, delete(cache, k.key, k.namespace, down), down)

\* deletePattern of a pattern of clearTaskCaches, or of the pattern of every key
DeletePattern ==
    \E pattern \in { <<"task", "1", "*">>, <<"task", "*">>, <<"list", "*">>,
                      <<"list", "*", "userId", "u1", "*">>, <<"stats", "*">>, <<"*">> },
       k \in HarnessKeys, down \in BOOLEAN :
        Replied("deletePattern", pattern, k.namespace,
                deletePattern(cache, pattern, k.namespace, down), down)

\* time passes until an entry is about to expire, or expires: the server
\* drops the entries whose seconds have run out.  The harness follows an
\* entry through its first MaxAge seconds and through its last one.
Elapse ==
    \E name \in DOMAIN cache : \E d \in { cache[name].ttl - 1, cache[name].ttl } :
        /\ d > 0
        /\ \A n \in DOMAIN cache : cache[n].age + d <= MaxAge \/ cache[n].ttl - d <= 1
        /\ cache' = [k \in { n \in DOMAIN cache : cache[n].ttl > d } |->
                        [cache[k] EXCEPT !.ttl = @ - d, !.age = @ + d]]
        /\ reply' = [NoReply EXCEPT !.op = "elapse", !.count = d]
        /\ UNCHANGED <<tx, rows, reader, queueVars, limiterVars, scanVars, overdueBy>>

(***************************************************************************)
(* The mutations of TasksService on the task, and the worker's            *)
(* updateStatus.  create, update and the bulk operations run their whole  *)
(* body, the queue add and (create, update) clearTaskCaches included,     *)
(* inside the callback of dataSource.transaction; the transaction commits *)
(* when the callback has returned.  remove and updateStatus run their     *)
(* statement outside any transaction.  tx[m] is call m: its operation,    *)
(* where it stands, the row it found, the row it wrote, and whether it    *)
(* added its job, cleared the caches, committed; 'worked' is what the     *)
(* worker's updateStatus did with the job.                                *)
(***************************************************************************)
NoTx == [op |-> "none", pc |-> "idle", original |-> NoRow, row |-> NoRow,
         enqueued |-> FALSE, jobStatus |-> "", invalidated |-> FALSE,
         cacheFailed |-> FALSE, committed |-> FALSE, error |-> "", worked |-> "no"]

BulkOps == { "bulkCreate", "bulkUpdateStatus", "bulkUpdate", "bulkDelete" }

\* a transaction holds a write of the row that it has not committed yet
Locked ==
    \E m \in 1..MaxMutators : tx[m].pc \in { "written", "cleared" } /\ ~tx[m].committed

\* mutant: the catch block of clearTaskCaches throws what it caught, and a
\* deletion that found the backend down rejects
clearTaskCaches_Rethrows(c, specificUserId, specificTaskId, down) ==
    [cache |-> c, raised |-> down]

\* clearTaskCaches: the deletions of cachePromises, awaited together inside
\* a try block whose catch block logs and returns
clearTaskCaches(c, specificUserId, specificTaskId, down) ==
    LET ns == "tasks"
        one(key) == [pattern |-> FALSE, key |-> key]
        all(key) == [pattern |-> TRUE, key |-> key]
        cachePromises ==
            (IF specificTaskId # ""
             THEN <<one(<<"task", specificTaskId, "admin">>)>>
                  \o (IF specificUserId # ""
                      THEN <<one(<<"task", specificTaskId, "user", specificUserId>>)>>
                      ELSE <<>>)
                  \o <<all(<<"task", specificTaskId, "*">>)>>
             ELSE <<all(<<"task", "*">>)>>)
            \o <<all(<<"list", "*">>)>>
            \o (IF specificUserId # ""
                THEN <<all(<<"list", "*", "userId", specificUserId, "*">>),
                       one(<<"stats", "user", specificUserId>>)>>
                ELSE <<>>)
            \o <<one(<<"stats", "global">>), all(<<"stats", "*">>)>>
        RECURSIVE await(_, _)
        await(r, i) ==
            IF i > Len(cachePromises) THEN r
            ELSE LET p == cachePromises[i]
                     call == IF p.pattern THEN deletePattern(r.cache, p.key, ns, down)
                             ELSE delete(r.cache, p.key, ns, down)
                 IN  await([cache |-> call.cache, raised |-> r.raised \/ call.raised], i + 1)
        tried == await([cache |-> c, raised |-> FALSE], 1)
    IN  [cache |-> tried.cache, raised |-> FALSE]

\* update, first statement of the callback: manager.findOne of the original
\* task; NotFoundException when there is none
UpdateFindOne(m) ==
    /\ tx[m].pc \in { "idle", "committed", "rolledBack" }
    /\ tx' = [tx EXCEPT ![m] =
                IF rows.live
                THEN [NoTx EXCEPT !.op = "update", !.pc = "read", !.original = rows]
                ELSE [NoTx EXCEPT !.op = "update", !.pc = "rolledBack",
                                  !.error = "notFound"]]
    /\ UNCHANGED <<rows, cache, reader, reply, queueVars, limiterVars, scanVars, overdueBy>>

\* the statements of the callback up to the queue add: the row is written
\* inside the transaction, once no other transaction holds it, and the job
\* is added.  status is the status that the request names, "" if it names
\* none.  create and bulkCreate always add a job, update and
\* bulkUpdateStatus add one if the status differs from the one they read,
\* bulkUpdate adds one if the request names a status.  A failing statement
\* or a failing add is rethrown and the transaction rolls back, as does an
\* update that affects no row.
Mutate(m, op) ==
    /\ IF op = "update" THEN tx[m].pc = "read" ELSE tx[m].pc \in { "idle", "committed", "rolledBack" }
    /\ ~Locked
    /\ rows.version < MaxVersion
    /\ op \in { "create", "bulkCreate" } => ~rows.live
    /\ \E fails \in { "", "statement", "queue" }, status \in { "", "PENDING", "COMPLETED" },
          userId \in Users :
          LET this == IF op = "update" THEN tx[m] ELSE [NoTx EXCEPT !.op = op]
              read == IF op = "update" THEN tx[m].original ELSE rows
              written ==
                  [version |-> rows.version + 1,
                   userId  |-> IF op \in { "create", "bulkCreate", "update" } THEN userId
                               ELSE rows.userId,
                   status  |-> IF status # "" THEN status ELSE rows.status,
                   live    |-> op # "bulkDelete"]
              none == op \in BulkOps /\ ~rows.live /\ op # "bulkCreate"
              adds ==
                  /\ ~none
                  /\ CASE op \in { "create", "bulkCreate", "bulkDelete" } -> TRUE
                        [] op \in { "update", "bulkUpdateStatus" } ->
                              status # "" /\ read.status # status
                        [] op = "bulkUpdate" -> status # ""
          IN  /\ op \in { "create", "bulkCreate", "bulkUpdateStatus" } => status # ""
              /\ op = "bulkDelete" => status = ""
              /\ fails = "queue" => adds
              /\ tx' = [tx EXCEPT ![m] =
                    IF op = "update" /\ ~rows.live
                    THEN [this EXCEPT !.pc = "rolledBack", !.error = "notFound"]
                    ELSE IF fails # ""
                    THEN [this EXCEPT !.pc = "rolledBack", !.error = fails]
                    ELSE IF none
                    THEN [this EXCEPT !.pc = "written", !.row = rows]
                    ELSE [this EXCEPT !.pc = "written", !.row = written,
                                      !.enqueued = adds,
                                      !.jobStatus =
                                          IF adds /\ op \notin { "bulkCreate", "bulkDelete" }
                                          THEN written.status ELSE ""]]
    /\ UNCHANGED <<rows, cache, reader, reply, queueVars, limiterVars, scanVars, overdueBy>>

\* remove: the DELETE, outside any transaction; NotFoundException when it
\* affects no row
Remove(m) ==
    /\ tx[m].pc \in { "idle", "committed", "rolledBack" }
    /\ ~Locked
    /\ rows.version < MaxVersion
    /\ IF rows.live
       THEN /\ rows' = [rows EXCEPT !.version = @ + 1, !.live = FALSE]
            /\ tx' = [tx EXCEPT ![m] = [NoTx EXCEPT !.op = "remove", !.pc = "written",
                                                    !.original = rows, !.row = rows',
                                                    !.committed = TRUE]]
       ELSE /\ tx' = [tx EXCEPT ![m] = [NoTx EXCEPT !.op = "remove", !.pc = "rolledBack",
                                                    !.error = "notFound"]]
            /\ UNCHANGED rows
    /\ UNCHANGED <<cache, reader, reply, queueVars, limiterVars, scanVars, overdueBy>>

\* await this.clearTaskCaches(...): create clears for the user of the saved
\* task, update for the task and the original user and then for the new
\* user if the update names another one, remove for the task alone.  In
\* create and update this is still inside the callback.
ClearTaskCaches(m) ==
    /\ tx[m].pc = "written"
    /\ tx[m].op \in { "create", "update", "remove" }
    /\ \E down \in BOOLEAN :
          LET cleared ==
                CASE tx[m].op = "create" ->
                        clearTaskCaches(cache, tx[m].row.userId, "", down)
                  [] tx[m].op = "update" ->
                        LET once == clearTaskCaches(cache, tx[m].original.userId, "1", down)
                        IN  IF ~once.raised /\ tx[m].row.userId # tx[m].original.userId
                            THEN clearTaskCaches(once.cache, tx[m].row.userId, "1", down)
                            ELSE once
                  [] tx[m].op = "remove" ->
                        clearTaskCaches(cache, "", "1", down)
          IN  /\ cache' = cleared.cache
              /\ tx' = [tx EXCEPT ![m] =
                    IF cleared.raised
                    THEN [@ EXCEPT !.pc = "rolledBack", !.error = "cache",
                                   !.cacheFailed = down,
                                   !.original = NoRow, !.row = NoRow]
                    ELSE IF tx[m].op = "remove"
                    THEN [@ EXCEPT !.pc = "committed", !.invalidated = TRUE,
                                   !.cacheFailed = down,
                                   !.original = NoRow, !.row = NoRow]
                    ELSE [@ EXCEPT !.pc = "cleared", !.invalidated = TRUE,
                                   !.cacheFailed = down]]
    /\ UNCHANGED <<rows, reader, reply, queueVars, limiterVars, scanVars, overdueBy>>

\* the callback has returned: the transaction commits, or the commit fails
\* and the write is lost
Commit(m) ==
    /\ \/ tx[m].pc = "cleared"
       \/ tx[m].pc = "written" /\ tx[m].op \in BulkOps
    /\ \E commitFails \in BOOLEAN :
          IF commitFails
          THEN /\ tx' = [tx EXCEPT ![m].pc = "rolledBack", ![m].error = "commit",
                                   ![m].original = NoRow, ![m].row = NoRow]
               /\ UNCHANGED rows
          ELSE /\ tx' = [tx EXCEPT ![m].pc = "committed", ![m].committed = TRUE,
                                   ![m].original = NoRow, ![m].row = NoRow]
               /\ rows' = tx[m].row
    /\ UNCHANGED <<cache, reader, reply, queueVars, limiterVars, scanVars, overdueBy>>

\* the worker runs the 'task-status-update' job of mutation m:
\* TasksService.updateStatus, one UPDATE outside any transaction, which
\* waits for a transaction that holds the row and raises 'Task not found'
\* when no committed row has the id
UpdateStatus(m) ==
    /\ tx[m].enqueued
    /\ tx[m].worked = "no"
    /\ tx[m].op \in { "create", "update", "bulkUpdateStatus", "bulkUpdate" }
    /\ rows.live => ~Locked
    /\ IF rows.live
       THEN /\ rows' = [rows EXCEPT !.status = tx[m].jobStatus]
            /\ tx' = [tx EXCEPT ![m].worked = "updated"]
       ELSE /\ tx' = [tx EXCEPT ![m].worked = "notFound"]
            /\ UNCHANGED rows
    /\ UNCHANGED <<cache, reader, reply, queueVars, limiterVars, scanVars, overdueBy>>

(***************************************************************************)
(* Specifications                                                          *)
(***************************************************************************)
NoMetrics == [processed |-> 0, failed |-> 0, totalProcessingTime |-> 0]

\* the state after construction: nothing queued, nothing counted
AtRest ==
    [ jobs         |-> [j \in 1..MaxJobs |-> NoJob],
      jobMetrics   |-> NoMetrics,
      queueMetrics |-> [processed |-> 0, failed |-> 0, totalProcessingTime |-> 0,
                        averageProcessingTime |-> 0, successRate |-> 0],
      errorMessage |-> <<>>,
      errorInfo    |-> NoInfo,
      limiter      |-> [count |-> 0, ttl |-> 0],
      running      |-> 0,
      recent       |-> <<[age |-> 0, count |-> 0]>>,
      store        |-> StoreOf(0),
      clock        |-> 0,
      scans        |-> [r \in 1..MaxRuns |-> NoScan],
      thisProcessBatch |-> <<>>,
      overdueQueue |-> {},
      faults       |-> 0,
      overdueBy    |-> [ms |-> 0, text |-> NoText],
      tx           |-> [m \in 1..MaxMutators |-> NoTx],
      rows         |-> NoRow,
      cache        |-> <<>>,
      reader       |-> [c \in 1..MaxCallers |-> NoReader],
      reply        |-> NoReply ]

Start(v) ==
    /\ jobs = v.jobs
    /\ jobMetrics = v.jobMetrics
    /\ queueMetrics = v.queueMetrics
    /\ errorMessage = v.errorMessage
    /\ errorInfo = v.errorInfo
    /\ limiter = v.limiter
    /\ running = v.running
    /\ recent = v.recent
    /\ store = v.store
    /\ clock = v.clock
    /\ scans = v.scans
    /\ thisProcessBatch = v.thisProcessBatch
    /\ overdueQueue = v.overdueQueue
    /\ faults = v.faults
    /\ overdueBy = v.overdueBy
    /\ tx = v.tx
    /\ rows = v.rows
    /\ cache = v.cache
    /\ reader = v.reader
    /\ reply = v.reply

Init == Start(AtRest)

Next ==
    \/ Produce
    \/ AddForeign
    \/ \E j \in Slots : Dequeue(j)
    \/ \E j \in Slots : Process(j)
    \/ Tick

Spec == Init /\ [][Next]_vars

\* the worker pool always takes a ready job, every handler ends, time passes
FairSpec ==
    /\ Spec
    /\ WF_vars(Tick)
    /\ \A j \in 1..MaxJobs : WF_vars(Dequeue(j)) /\ WF_vars(Process(j))

\* the worker pool under a burst of jobs from bulkCreate
InitPool == Start([AtRest EXCEPT !.jobs = [j \in 1..MaxPoolJobs |-> NoJob]])

NextPool ==
    \/ BulkCreate
    \/ \E j \in Slots : Dequeue(j)
    \/ \E j \in Slots : Process(j)

SpecPool == InitPool /\ [][NextPool]_vars

\* the counters of the worker under executions that overlap, reads and
\* resets: the queue holds the jobs of a bulkCreate and of a bulkDelete, as
\* many as the pool has slots, and none of them is taken yet
InitMetrics ==
    \E created \in 0..MaxPoolJobs :
        Start([AtRest EXCEPT !.jobs =
                 [j \in 1..MaxPoolJobs |->
                    IF j <= created THEN taskCreatedJob ELSE taskDeletedJob]])

NextMetrics ==
    \/ \E j \in Slots : Dequeue(j)
    \/ \E j \in Slots : Process(j)
    \/ GetMetrics
    \/ ResetMetrics

SpecMetrics == InitMetrics /\ [][NextMetrics]_vars

\* the classifier over every message of the bounded vocabulary
InitClassify == \E m \in Messages : Start([AtRest EXCEPT !.errorMessage = m])

NextClassify == Categorize \/ NextMessage

SpecClassify == InitClassify /\ [][NextClassify]_vars

\* an overdue scan and mutations feeding the same worker
InitPriority == Start([AtRest EXCEPT !.jobs = [j \in 1..MaxPriorityJobs |-> NoJob]])

NextPriority ==
    \/ Produce
    \/ \E j \in Slots : Dequeue(j)
    \/ \E j \in Slots : Process(j)
    \/ Tick

SpecPriority == InitPriority /\ [][NextPriority]_vars

\* one overdue scan, scheduled or manual, over a tasks table of several pages
\* that does not change
InitScan ==
    \E q \in 0..MaxFullPages, m \in StoreRemainders :
        Start([AtRest EXCEPT !.store = StoreOf(q * BATCH_SIZE + m)])

NextScan ==
    \/ \E r \in Runs, kind \in { "scheduled", "manual" } :
          /\ \A q \in Runs : scans[q].pc = "idle"
          /\ StartScan(r, kind)
    \/ \E r \in Runs : Fetch(r)
    \/ \E r \in Runs : ProcessBatch(r)
    \/ ScanTick

SpecScan == InitScan /\ [][NextScan]_vars

\* overdue scans one after the other, over a tasks table that does not change
InitRescan ==
    \E q \in 0..MaxRescanPages : Start([AtRest EXCEPT !.store = StoreOf(q * BATCH_SIZE + 1)])

NextRescan ==
    \/ \E r \in Runs, kind \in { "scheduled", "manual" } :
          /\ \A q \in Runs \ { r } : scans[q].pc = "idle"
          /\ StartScan(r, kind)
    \/ \E r \in Runs : Fetch(r)
    \/ \E r \in Runs : ProcessBatch(r)
    \/ ScanTick

SpecRescan == InitRescan /\ [][NextRescan]_vars

\* manual triggers and scheduled runs that overlap, each started once, over
\* a tasks table of one overdue record that does not change
InitOverlap ==
    Start([AtRest EXCEPT !.store = StoreOf(1),
                         !.scans = [r \in 1..MaxOverlap |-> NoScan]])

NextOverlap ==
    \/ \E r \in Runs, kind \in { "scheduled", "manual" } :
          /\ scans[r].pc = "idle"
          /\ StartScan(r, kind)
    \/ \E r \in Runs : Fetch(r)
    \/ \E r \in Runs : ProcessBatch(r)
    \/ ScanTick

SpecOverlap == InitOverlap /\ [][NextOverlap]_vars

\* one overdue scan over a tasks table of two pages, while the first and
\* the last overdue task of the table are completed
NextChanging ==
    \/ \E r \in Runs, kind \in { "scheduled", "manual" } :
          /\ \A q \in Runs : scans[q].pc = "idle"
          /\ StartScan(r, kind)
    \/ \E r \in Runs : Fetch(r)
    \/ \E r \in Runs : ProcessBatch(r)
    \/ \E id \in { 1, BATCH_SIZE + 1 } : StoreUpdateStatus(id, "COMPLETED")

SpecChanging == InitRescan /\ [][NextChanging]_vars

\* calculateOverdueDuration over the durations of the harness
InitDuration == \E d \in Durations : Start([AtRest EXCEPT !.overdueBy.ms = d])

NextDuration == Render \/ AnotherDuration

SpecDuration == InitDuration /\ [][NextDuration]_vars

\* the cached reads of some viewers; the task exists, or it does not
CacheRequests == { r \in Requests : r.fn = "findOne" /\ r.userId \in { "a", "u2" } }

InitCache ==
    \E row \in { NoRow, [version |-> 0, userId |-> "u1", status |-> "PENDING", live |-> TRUE] } :
        Start([AtRest EXCEPT !.rows = row])

\* the mutations of one task, one call at a time, the worker on their jobs,
\* and the cached reads of an admin and of the first owner of the task
MutationRequests ==
    { r \in Requests : r.userId = "a" /\ r.filter = "" /\ r.fn # "getTaskStatistics" }

NextMutation ==
    \/ UpdateFindOne(1)
    \/ \E op \in { "create", "update" } \cup BulkOps : Mutate(1, op)
    \/ Remove(1)
    \/ ClearTaskCaches(1)
    \/ Commit(1)
    \/ UpdateStatus(1)
    \/ \E request \in MutationRequests : GetOrSetGet(1, request)
    \/ Factory(1)
    \/ GetOrSetSet(1)

SpecMutation == InitCache /\ [][NextMutation]_vars

\* concurrent calls of create, update and remove on the task, and the worker
\* on their jobs
NextWrites ==
    \/ \E m \in 1..MaxMutators : UpdateFindOne(m)
    \/ \E m \in 1..MaxMutators, op \in { "create", "update" } : Mutate(m, op)
    \/ \E m \in 1..MaxMutators : Remove(m)
    \/ \E m \in 1..MaxMutators : ClearTaskCaches(m)
    \/ \E m \in 1..MaxMutators : Commit(m)
    \/ \E m \in 1..MaxMutators : UpdateStatus(m)

SpecWrites == InitCache /\ [][NextWrites]_vars

\* the reads of the task by an admin and by its first owner, and the lists of
\* that owner, of an admin, and of an admin who filters by that owner
ViewerRequests ==
    { r \in Requests : /\ r.fn # "getTaskStatistics"
                       /\ r.userId \in { "a", "u1" }
                       /\ r.filter \in { "", "u1" } }

\* updates of the task, which may hand it to another user, and the cached
\* reads of the task and of the list by its two possible owners and by an admin
NextViewers ==
    \/ UpdateFindOne(1)
    \/ Mutate(1, "update")
    \/ ClearTaskCaches(1)
    \/ Commit(1)
    \/ \E request \in ViewerRequests : GetOrSetGet(1, request)
    \/ Factory(1)
    \/ GetOrSetSet(1)

SpecViewers == InitCache /\ [][NextViewers]_vars

\* concurrent updates of the task, and an admin who lists the tasks
NextUpdates ==
    \/ \E m \in 1..MaxMutators : UpdateFindOne(m)
    \/ \E m \in 1..MaxMutators : Mutate(m, "update")
    \/ \E m \in 1..MaxMutators : ClearTaskCaches(m)
    \/ \E m \in 1..MaxMutators : Commit(m)
    \/ \E request \in { r \in MutationRequests : r.fn = "findAllWithFilters" } :
          GetOrSetGet(1, request)
    \/ Factory(1)
    \/ GetOrSetSet(1)

SpecUpdates == InitCache /\ [][NextUpdates]_vars

\* the cache service called directly and through the cached reads of a task
\* that does not change
NextCache ==
    \/ Set({ 0 })
    \/ Get
    \/ Delete
    \/ DeletePattern
    \/ \E request \in CacheRequests : GetOrSetGet(1, request)
    \/ Factory(1)
    \/ GetOrSetSet(1)

SpecCache == InitCache /\ [][NextCache]_vars

\* concurrent cached reads of a task that does not change
NextGetOrSet ==
    \/ \E c \in 1..MaxCallers, request \in CacheRequests : GetOrSetGet(c, request)
    \/ \E c \in 1..MaxCallers : Factory(c)
    \/ \E c \in 1..MaxCallers : GetOrSetSet(c)

SpecGetOrSet == InitCache /\ [][NextGetOrSet]_vars

\* the entries of the cache service as time passes
NextExpiry ==
    \/ Set(0..MaxTtl)
    \/ Get
    \/ Delete
    \/ Elapse

SpecExpiry == Init /\ [][NextExpiry]_vars

\* the rate limit under a backlog that never empties
NextLimiter == LimitedDequeue \/ LimitedFinish \/ LimiterTick

SpecLimiter == Init /\ [][NextLimiter]_vars

(***************************************************************************)
(* Properties                                                              *)
(***************************************************************************)
Ran(j) == jobs[j].last.result # "none"

Terminal(j) == jobs[j].state \in { "Completed", "Failed" }

\* C1: once an attempt of a job has been classified non-retryable and
\* rethrown, the job is Failed: it is not Pending or Active again.
C1_NonRetryableFailsTerminally ==
    \A j \in Slots : jobs[j].last.branch = "non-retryable" => jobs[j].state = "Failed"

\* C2: for every job, attemptsMade and the number of process() invocations
\* never exceed maxAttempts (the attempts option, 1 when unset).
C2_AttemptsBounded ==
    \A j \in Slots :
        /\ jobs[j].attemptsMade <= jobContext(jobs[j]).maxAttempts
        /\ jobs[j].state # "None" => jobs[j].runs <= jobContext(jobs[j]).maxAttempts

\* a job that failed retryably on each of its three attempts
C2_Witness ==
    \E j \in Slots :
        /\ jobs[j].state = "Failed"
        /\ jobs[j].attemptsMade = MutationAttempts
        /\ jobs[j].runs = MutationAttempts
        /\ jobs[j].last.branch = "exhausted"

\* C3: a job only moves Pending -> Active, Active -> Completed, Active ->
\* Failed, or Active -> Pending, the last only on a retryable failure with
\* attempts remaining; Completed and Failed are never left.
C3_Transitions ==
    [][\A j \in Slots :
          LET old == jobs[j].state
              new == jobs'[j].state
          IN  \/ old = new
              \/ old = "None" /\ new = "Pending"
              \/ old = "Pending" /\ new = "Active"
              \/ old = "Active" /\ new \in { "Completed", "Failed" }
              \/ /\ old = "Active" /\ new = "Pending"
                 /\ jobs'[j].last.info.isRetryable
                 /\ jobs[j].attemptsMade + 1 < jobContext(jobs[j]).maxAttempts]_vars

C5_ReturnsIffSuccess ==
    \A j \in Slots :
        /\ Ran(j) =>
             /\ (jobs[j].last.result = "returned") <=>
                  /\ validateJobData(jobs[j]).isValid
                  /\ jobs[j].name \in KnownNames
                  /\ jobs[j].last.handler = "ok"
             /\ jobs[j].last.result # "returned" =>
                  /\ jobs[j].last.result = "thrown"
                  /\ jobs[j].last.branch \in { "retry", "non-retryable", "exhausted" }
        /\ jobs[j].state = "Completed" => jobs[j].last.result = "returned"

\* a job whose third attempt was rethrown from the exhausted branch
C5_Witness ==
    \E j \in Slots :
        /\ jobs[j].state = "Failed"
        /\ jobs[j].runs = MutationAttempts
        /\ jobs[j].last.result = "thrown"
        /\ jobs[j].last.branch = "exhausted"

\* C6: a job whose payload is invalid for its kind: no handler is invoked,
\* the attempt fails, is classified client / non-retryable, and the job is
\* not retried.
C6_InvalidPayloadNotRetried ==
    \A j \in Slots :
        (Ran(j) /\ ~validateJobData(jobs[j]).isValid) =>
            /\ jobs[j].last.handler = "notInvoked"
            /\ jobs[j].last.result = "thrown"
            /\ jobs[j].last.info.category = "client"
            /\ ~jobs[j].last.info.isRetryable
            /\ jobs[j].state = "Failed"
            /\ jobs[j].runs = 1

\* C7: a job of an unknown kind fails with a non-retryable classification,
\* is executed once and is Failed without retry.
C7_UnknownKindFatal ==
    \A j \in Slots :
        (Ran(j) /\ validateJobData(jobs[j]).isValid /\ jobs[j].name \notin KnownNames) =>
            /\ jobs[j].last.result = "thrown"
            /\ ~jobs[j].last.info.isRetryable
            /\ jobs[j].state = "Failed"
            /\ jobs[j].runs = 1

StorageSignal(msg) ==
    \E s \in { "database", "connection", "timeout", "ECONNREFUSED" } : includes(msg, s)

InputSignal(msg) ==
    \E s \in { "validation", "required", "invalid" } : includes(msg, s)

NotFoundSignal(msg) ==
    \E s \in { "not found", "does not exist" } : includes(msg, s)

NetworkSignal(msg) ==
    \E s \in { "network", "ENOTFOUND", "ETIMEDOUT" } : includes(msg, s)

Infrastructure(info) == info.category = "infrastructure" /\ info.isRetryable

Client(info) == info.category = "client" /\ ~info.isRetryable

UnknownRetryable(info) == info.category = "unknown" /\ info.isRetryable

\* C8 as stated: every row of the table applies to every message that
\* carries its signal.
C8_EveryRowApplies ==
    errorInfo # NoInfo =>
        /\ StorageSignal(errorMessage) => Infrastructure(errorInfo)
        /\ NetworkSignal(errorMessage) => Infrastructure(errorInfo)
        /\ InputSignal(errorMessage) => Client(errorInfo)
        /\ NotFoundSignal(errorMessage) => Client(errorInfo)
        /\ ~(StorageSignal(errorMessage) \/ NetworkSignal(errorMessage)
             \/ InputSignal(errorMessage) \/ NotFoundSignal(errorMessage))
             => UnknownRetryable(errorInfo)

\* C8 amended: the rows apply in the order storage, invalid-input,
\* not-found, network; a message is classified by the first row whose
\* signal it carries, and as unknown / retryable when it carries none.
C8_FirstRowApplies ==
    errorInfo # NoInfo =>
        /\ Infrastructure(errorInfo) \/ Client(errorInfo) \/ UnknownRetryable(errorInfo)
        /\ StorageSignal(errorMessage) => Infrastructure(errorInfo)
        /\ (~StorageSignal(errorMessage)
            /\ (InputSignal(errorMessage) \/ NotFoundSignal(errorMessage)))
             => Client(errorInfo)
        /\ (~StorageSignal(errorMessage) /\ ~InputSignal(errorMessage)
            /\ ~NotFoundSignal(errorMessage) /\ NetworkSignal(errorMessage))
             => Infrastructure(errorInfo)
        /\ ~(StorageSignal(errorMessage) \/ NetworkSignal(errorMessage)
             \/ InputSignal(errorMessage) \/ NotFoundSignal(errorMessage))
             => UnknownRetryable(errorInfo)

\* a classified message that carries a network and an invalid-input signal
C8_Witness ==
    /\ errorInfo # NoInfo
    /\ NetworkSignal(errorMessage)
    /\ InputSignal(errorMessage)
    /\ Client(errorInfo)

\* the time a job has to wait before its redelivery after failing with n
\* attempts made: base * 2^n, base by the kind of its producer
RetryWait(job) == BackoffOf(job.name) * Pow2(job.attemptsMade)

FailedRetryably(j) ==
    /\ jobs[j].state = "Active"
    /\ jobs'[j].state # "Active"
    /\ jobs'[j].last.result = "thrown"
    /\ jobs'[j].last.info.isRetryable

\* C9 as stated, for the jobs enqueued with attempts set: a retryable
\* failure with attemptsMade = n < maxAttempts puts the job back to Pending
\* with delay base * 2^n and n + 1 attempts made.
C9_RetriedWhileBelowMax ==
    [][\A j \in Slots :
          (FailedRetryably(j)
           /\ jobs[j].attempts # 0
           /\ jobs[j].attemptsMade < jobContext(jobs[j]).maxAttempts) =>
              /\ jobs'[j].state = "Pending"
              /\ jobs'[j].delayLeft = RetryWait(jobs[j])
              /\ jobs'[j].attemptsMade = jobs[j].attemptsMade + 1]_vars

\* C9 amended: a retryable failure with attemptsMade = n and
\* n + 1 < maxAttempts puts the job back to Pending with delay base * 2^n
\* and n + 1 attempts made (with n + 1 = maxAttempts the job is Failed);
\* the delay only runs down with time, and the job is redelivered only
\* when nothing of it is left.
C9_RetriedWhileAttemptsRemain ==
    [][\A j \in Slots :
          /\ (FailedRetryably(j)
              /\ jobs[j].attemptsMade + 1 < jobContext(jobs[j]).maxAttempts) =>
                 /\ jobs'[j].state = "Pending"
                 /\ jobs'[j].delayLeft = RetryWait(jobs[j])
                 /\ jobs'[j].attemptsMade = jobs[j].attemptsMade + 1
          /\ (FailedRetryably(j)
              /\ jobs[j].attemptsMade + 1 = jobContext(jobs[j]).maxAttempts) =>
                 /\ jobs'[j].state = "Failed"
                 /\ jobs'[j].attemptsMade = jobs[j].attemptsMade + 1
          /\ (jobs[j].state = "Pending" /\ jobs'[j].state = "Pending") =>
                 /\ jobs'[j].delayLeft <= jobs[j].delayLeft
                 /\ jobs[j].delayLeft - jobs'[j].delayLeft <= TickMs
          /\ (jobs[j].state = "Pending" /\ jobs'[j].state = "Active") =>
                 jobs[j].delayLeft = 0]_vars

\* an overdue notification that failed retryably with one attempt made
\* and waits for its second retry (n = 1: 2 * 5000 ms)
C9_Witness ==
    \E j \in Slots :
        /\ jobs[j].name = "overdue-tasks-notification"
        /\ jobs[j].state = "Pending"
        /\ jobs[j].attemptsMade = 2
        /\ jobs[j].last.info.isRetryable
        /\ jobs[j].delayLeft = 2 * OverdueBackoffDelay

\* C10: at most 5 jobs are Active at the same time.
C10_AtMostFiveActive == Cardinality(Active) <= 5

\* five jobs Active while another one is Pending and ready
C10_Witness ==
    /\ Cardinality(Active) = 5
    /\ \E j \in Slots : jobs[j].state = "Pending" /\ jobs[j].delayLeft = 0

\* C11 (as stated): in any window of 60 seconds at most 100 jobs are dequeued.
C11_AtMostMaxInAnyWindow == TakenInLastDuration <= LimiterMax

\* C11 (amended): in the 60000 ms that follow the first dequeue after the
\* previous rate-limit window expired, at most 100 jobs are dequeued, whatever
\* the number of free slots: with 100 counted and the window alive, no job is
\* taken before the window expires.
C11_AtMostMaxPerLimiterWindow ==
    [][/\ (limiter.ttl > 0 => TakenInWindow <= LimiterMax)
       /\ (limiter.ttl > 0 /\ limiter.count = LimiterMax) => running' <= running
       /\ running' > running =>
              limiter'.ttl > 0 /\ TakenInWindow' <= LimiterMax]_vars

\* 100 jobs taken in the living window, a slot free: the 101st waits
C11_Witness ==
    /\ limiter.count = LimiterMax
    /\ limiter.ttl > 0
    /\ TakenInWindow = LimiterMax
    /\ running < Concurrency

\* C19: when an overdue-notification job (priority 10) and a mutation job
\* added without a priority are both Pending and ready and a worker slot is
\* free, the mutation job is not dequeued while the overdue job still waits.
C19_OverdueDequeuedFirst ==
    [][\A i, j \in Slots :
          (/\ jobs[i].name = "overdue-tasks-notification"
           /\ jobs[i].priority = OverduePriority
           /\ jobs[i].state = "Pending" /\ jobs[i].delayLeft = 0
           /\ jobs[j].name \in { "task-status-update", "task-created", "task-deleted" }
           /\ jobs[j].priority = 0
           /\ jobs[j].state = "Pending" /\ jobs[j].delayLeft = 0
           /\ Cardinality(Active) < Concurrency)
          => ~(jobs'[j].state = "Active" /\ jobs'[i].state = "Pending")]_vars

\* the records that a scan with the given cutoff has to notify
Matching(cutoff) == { id \in DOMAIN store : Overdue(id, cutoff) }

\* C12: two overdue jobs for the same record whose enqueue calls are at most
\* one instant apart carry the same job id, so that only one job for the
\* record waits in the queue.
C12_OneWaitingJobPerRecord ==
    \A a, b \in overdueQueue :
        (a[1] = b[1] /\ a[2] - b[2] \in { 0 - 1, 0, 1 }) => a = b

\* C13: a run fetches at most ceil(totalMatching / BATCH_SIZE) + 1 pages, and
\* it fetches another page only while every page so far was full.
C13_PageFetchesBounded ==
    \A r \in Runs :
        LET run == scans[r]
            total == Cardinality(Matching(run.now))
            pages == (total + BATCH_SIZE - 1) \div BATCH_SIZE
        IN  run.pc # "idle" =>
               /\ run.fetches <= pages + 1
               /\ run.pc = "fetching" => run.fetched = run.fetches * BATCH_SIZE
               /\ (run.pc = "done" /\ run.outcome = "completed") =>
                     run.fetched < run.fetches * BATCH_SIZE

\* a table of 200 overdue records: two full pages and a third, empty fetch
C13_Witness ==
    \E r \in Runs :
        /\ scans[r].pc = "done" /\ scans[r].outcome = "completed"
        /\ Cardinality(Matching(scans[r].now)) = 2 * BATCH_SIZE
        /\ scans[r].fetches = 3

C15_TriggerReturnsTotals ==
    \A r \in Runs :
        LET run == scans[r]
        IN  /\ (run.kind = "manual" /\ run.pc = "done") =>
                  /\ run.result.processed = run.fetched
                  /\ run.result.queued = Len(run.enqueued)
                  /\ (/\ Cardinality(Matching(run.now)) = 150
                      /\ run.outcome = "completed" /\ faults = 0) =>
                         /\ run.fetches = 2
                         /\ run.result = [processed |-> 150, queued |-> 150]
            /\ (run.pc = "fetching" /\ run.fetches = 1) => run.offset = 100

\* the manual run over 150 overdue records
C15_Witness ==
    \E r \in Runs :
        /\ scans[r].kind = "manual" /\ scans[r].pc = "done"
        /\ Cardinality(Matching(scans[r].now)) = 150
        /\ scans[r].fetches = 2
        /\ scans[r].result = [processed |-> 150, queued |-> 150]

\* C16: a batch with failing enqueues still enqueues every other record of
\* the page, counts the page size minus the failures, and the scan goes on
\* with the next page when the page was full; queued never exceeds processed.
C16_FailuresDoNotStopTheBatch ==
    [][\A r \in Runs :
          /\ scans'[r].totalQueued <= scans'[r].totalProcessed
          /\ (scans[r].pc = "batching" /\ scans'[r].pc # "batching") =>
                LET page == scans[r].page
                    failed == scans'[r].lastFailed \cap Range(page)
                IN  /\ scans'[r].totalProcessed = scans[r].totalProcessed + Len(page)
                    /\ scans'[r].totalQueued =
                          scans[r].totalQueued + Len(page) - Cardinality(failed)
                    /\ scans'[r].enqueued =
                          scans[r].enqueued \o SelectSeq(page, LAMBDA id : id \notin failed)
                    /\ Len(page) = BATCH_SIZE => scans'[r].pc = "fetching"]_vars

\* the first record of a full page failed, the other 99 are enqueued and the
\* run is about to fetch the next page
C16_Witness ==
    \E r \in Runs :
        /\ scans[r].pc = "fetching"
        /\ Cardinality(scans[r].lastFailed) = 1
        /\ scans[r].totalProcessed = BATCH_SIZE
        /\ scans[r].totalQueued = BATCH_SIZE - 1
        /\ Len(scans[r].enqueued) = BATCH_SIZE - 1

\* C17: checkOverdueTasks never raises: a run in which an exception was
\* raised ends, and a run that starts afterwards starts at offset 0 with the
\* current instant as its cutoff and nothing left of the run before.
C17_ScanNeverRaises ==
    [][\A r \in Runs :
          /\ ~scans'[r].raised
          /\ scans'[r].outcome = "failed" => scans'[r].pc = "done"
          /\ (scans[r].pc = "done" /\ scans'[r].pc # "done") =>
                /\ scans'[r].pc = "fetching"
                /\ scans'[r].offset = 0
                /\ scans'[r].now = clock
                /\ scans'[r].totalProcessed = 0 /\ scans'[r].totalQueued = 0
                /\ scans'[r].fetches = 0 /\ scans'[r].enqueued = <<>>]_vars

\* a run that followed a failed run, at a later cutoff, and completed
C17_Witness ==
    \E r \in Runs :
        /\ scans[r].previous = "failed"
        /\ scans[r].pc = "done" /\ scans[r].outcome = "completed"
        /\ scans[r].now = 1
        /\ Len(scans[r].enqueued) > 0

\* C18: a non-negative overdue duration is rendered as floor(d/24) days when
\* that is positive and as floor(d) hours otherwise, with the singular unit
\* exactly when the count is 1 and the plural for every other count, 0 included.
C18_DaysOrHoursWithPlural ==
    overdueBy.text # NoText =>
        LET hours == overdueBy.ms \div HourMs
            days  == hours \div 24
            count == IF days > 0 THEN days ELSE hours
            word  == IF days > 0 THEN "day" ELSE "hour"
            words == IF days > 0 THEN "days" ELSE "hours"
        IN  overdueBy.text = [count |-> count,
                              unit  |-> IF count = 1 THEN word ELSE words]

\* C20: the caches are cleared by create and update only when the
\* transaction of the mutation has committed.
C20_InvalidationAfterCommit ==
    \A m \in 1..MaxMutators : tx[m].invalidated => tx[m].committed

\* C24: after deletePattern(p, ns) has returned, every key of the namespace
\* that was set and matches p is gone (the names under which the server holds
\* them are the prefixed ones), every other entry is as it was, and the count
\* returned is the number of entries removed.
C24_PatternDeleted ==
    [][ (reply'.op = "deletePattern" /\ ~reply'.down) =>
            LET stored == Stored(buildKey(reply'.key, reply'.namespace))
                gone == { name \in DOMAIN cache : Match(stored, name) }
            IN  /\ DOMAIN cache' = DOMAIN cache \ gone
                /\ \A name \in DOMAIN cache' : cache'[name] = cache[name]
                /\ reply'.count = Cardinality(gone) ]_vars

\* C25: an entry written by set with ttl T is gone once T seconds have
\* passed, so that a get after more than T seconds misses; until then, and
\* until a delete or another set of its key, the entry stays and get returns
\* the value that was set.
C25_EntriesLiveForTheirTtl ==
    [][ /\ \A name \in DOMAIN cache' :
              cache'[name].asked # 0 => cache'[name].age < cache'[name].asked
        /\ \A name \in DOMAIN cache :
              LET entry == cache[name]
                  written == reply'.op \in { "set", "delete" }
                             /\ Stored(buildKey(reply'.key, reply'.namespace)) = name
                  inTime == reply'.op = "elapse" => entry.age + reply'.count < entry.asked
              IN  (entry.asked # 0 /\ ~written /\ inTime) =>
                      /\ name \in DOMAIN cache'
                      /\ cache'[name].value = entry.value
        /\ (reply'.op = "get" /\ ~reply'.down) =>
              LET name == Stored(buildKey(reply'.key, reply'.namespace))
              IN  reply'.value = IF name \in DOMAIN cache THEN cache[name].value.json
                                 ELSE null ]_vars

\* C25 witness: a get returns the value of an entry in the last second of
\* its ttl
C25_Witness ==
    \E k \in HarnessKeys :
        LET name == Stored(buildKey(k.key, k.namespace))
        IN  /\ reply.op = "get"
            /\ reply.key = k.key /\ reply.namespace = k.namespace
            /\ name \in DOMAIN cache
            /\ cache[name].asked = MaxTtl
            /\ cache[name].age = MaxTtl - 1
            /\ reply.value = cache[name].value.json
            /\ reply.value # null

\* C26: when the backend fails, no operation of the cache service raises: get
\* returns null, set and delete and deletePattern leave the entries as they
\* are and return nothing, false and 0, and getOrSet returns the value of its
\* factory (it raises only what the factory raises).
C26_BackendFailureNeverRaises ==
    [][ /\ reply'.down =>
              /\ ~reply'.raised
              /\ cache' = cache
              /\ reply'.value = null
              /\ ~reply'.deleted
              /\ reply'.count = 0
        /\ \A c \in 1..MaxCallers :
              LET call == reader'[c]
                  computed == Serve(call.request, rows).factory
              IN  call.down =>
                      /\ call.pc = "returned" => call.value = computed
                      /\ call.pc = "raised" => (call.value = computed /\ computed.type = "thrown") ]_vars

\* C26 witness: a getOrSet whose get and set both failed has returned the
\* task its factory found, and nothing was stored
C26_Witness ==
    /\ reader[1].pc = "returned"
    /\ reader[1].down
    /\ reader[1].computes = 1
    /\ reader[1].value = Task(rows)
    /\ cache = <<>>

\* C27: when getOrSet misses and its factory fails, the failure leaves
\* getOrSet and nothing is stored under the key, so that the next getOrSet of
\* the key misses and calls the factory again; findOne of a task that does not
\* exist or is not the user's raises 'Task not found' and caches nothing.
C27_FailureOfComputeIsNotCached ==
    /\ \A c \in 1..MaxCallers :
          /\ reader[c].value.type = "thrown" => reader[c].pc = "raised"
          /\ reader[c].pc = "raised" => reader[c].computes = 1
    /\ \A name \in DOMAIN cache : cache[name].value.json.type # "thrown"
    /\ \A request \in CacheRequests :
          LET call == Serve(request, rows)
              name == Stored(buildKey(call.cacheKey, call.options.namespace))
          IN  call.factory.type = "thrown" =>
                  /\ name \notin DOMAIN cache
                  /\ \A c \in 1..MaxCallers :
                        reader[c].request = request => reader[c].pc # "returned"

\* C27 witness: two findOne calls of a user for a task of another user have
\* both called the factory and raised 'Task not found'
C27_Witness ==
    /\ rows.live
    /\ \A c \in 1..MaxCallers :
          /\ reader[c].request.userId = "u2"
          /\ reader[c].pc = "raised"
          /\ reader[c].computes = 1
          /\ reader[c].value.message = "Task not found"
    /\ cache = <<>>

\* C28: a miss on a key causes exactly one call of the factory: a getOrSet
\* that hits calls it zero times, one that misses calls it once, and of the
\* getOrSet calls of one key that are in flight together only one calls it.
C28_OneComputePerMiss ==
    /\ \A c \in 1..MaxCallers :
          /\ reader[c].pc \in { "computed", "raised" } => reader[c].computes = 1
          /\ reader[c].pc = "returned" => reader[c].computes <= 1
    /\ \A c, d \in 1..MaxCallers :
          (c # d /\ reader[c].request = reader[d].request /\ reader[c].pc = "computed")
              => reader[d].pc # "computed"

\* C21: after two concurrent update calls of the task have both completed,
\* no list entry holds data computed before the mutations: the next
\* findAllWithFilters misses, or finds what was computed since.
C21_ListMissesAfterConcurrentUpdates ==
    (\A m \in 1..MaxMutators : tx[m].op = "update" /\ tx[m].pc = "committed") =>
        \A request \in { r \in MutationRequests : r.fn = "findAllWithFilters" } :
            LET call == Serve(request, rows)
                name == Stored(buildKey(call.cacheKey, call.options.namespace))
            IN  name \in DOMAIN cache =>
                    \A i \in DOMAIN cache[name].value.json.data :
                        cache[name].value.json.data[i].version > 0

\* the entry of the request, if there is one, holds what its query finds now
Fresh(request) ==
    LET call == Serve(request, rows)
        name == Stored(buildKey(call.cacheKey, call.options.namespace))
    IN  name \in DOMAIN cache => cache[name].value.json = call.factory

\* C22: every mutating operation invalidates the task caches: once create,
\* update, remove, a bulk operation or the worker's updateStatus has changed
\* the row and returned, no list, stats or task entry of the tasks namespace
\* holds what was computed before.
C22_MutationsInvalidate ==
    \A m \in 1..MaxMutators :
        (tx[m].pc = "committed" \/ tx[m].worked = "updated") =>
            \/ \E n \in 1..MaxMutators : tx[n].pc \notin { "idle", "committed", "rolledBack" }
            \/ \A request \in MutationRequests : Fresh(request)

\* C23: after update has returned, findOne by the admin or by the owner
\* returns the updated task (and no task to a user who no longer owns it):
\* the entry of its key is gone or holds the row as updated.
C23_FindOneAfterUpdate ==
    \A m \in 1..MaxMutators :
        (tx[m].op = "update" /\ tx[m].pc = "committed" /\ tx[m].worked = "no") =>
            \A request \in { r \in MutationRequests : r.fn = "findOne" } : Fresh(request)

\* C29: the job of a mutation is in the queue only when the transaction of
\* the mutation has committed: no job of a mutation in progress or rolled
\* back, and no worker on a job before the commit.
C29_JobOnlyAfterCommit ==
    \A m \in 1..MaxMutators :
        /\ tx[m].enqueued => tx[m].committed
        /\ tx[m].worked # "no" => tx[m].committed

\* C30: between two resets no counter of jobMetrics decreases, however the
\* executions of process (at most five at a time) and the calls of getMetrics
\* interleave; a step that lowers a counter is a resetMetrics, which leaves
\* all three at 0 and touches nothing else, and a call of getMetrics that
\* returns a new answer leaves the counters as they are.
C30_CountersOnlyFallByReset ==
    [][ /\ \/ /\ jobMetrics'.processed >= jobMetrics.processed
              /\ jobMetrics'.failed >= jobMetrics.failed
              /\ jobMetrics'.totalProcessingTime >= jobMetrics.totalProcessingTime
           \/ /\ jobMetrics' = NoMetrics
              /\ UNCHANGED <<jobs, queueMetrics>>
        /\ queueMetrics' # queueMetrics =>
              /\ UNCHANGED <<jobs, jobMetrics>>
              /\ queueMetrics'.processed = jobMetrics.processed
              /\ queueMetrics'.failed = jobMetrics.failed
              /\ queueMetrics'.totalProcessingTime = jobMetrics.totalProcessingTime
        /\ Cardinality(Active) <= Concurrency ]_vars

\* five executions overlap; an execution has ended before them, getMetrics
\* has counted it, and resetMetrics has cleared the counters since
C30_Witness ==
    /\ Cardinality(Active) = Concurrency
    /\ queueMetrics.processed + queueMetrics.failed > 0
    /\ jobMetrics = NoMetrics

\* C31: processed is the number of the jobs that are Completed and failed
\* the number of the jobs that are Failed for good, so a job that fails, is
\* retried and then succeeds counts as one processed job and no failed job.
C31_CountersCountJobs ==
    /\ jobMetrics.processed = Cardinality({ j \in Slots : jobs[j].state = "Completed" })
    /\ jobMetrics.failed = Cardinality({ j \in Slots : jobs[j].state = "Failed" })

\* C39: every job that a producer of the repository puts on the queue is
\* handed to a handler when the worker executes it; none of them ends with
\* 'Unknown job type'.
C39_ProducedJobsAreDispatched ==
    \A j \in Slots :
        LET job == jobs[j]
        IN  (/\ NewJob(job.name, job.data, job.attempts, job.backoff, job.priority)
                   \in ProducerJobs
             /\ job.last # NoOutcome)
                => job.last.handler # "notInvoked"

\* C32: a failure of the cache during clearTaskCaches never fails the
\* mutation: the call goes on as if the caches were cleared, remove returns
\* with its row deleted, and create and update commit what they wrote.
C32_CacheFailureDoesNotFailMutation ==
    [][\A m \in 1..MaxMutators :
          /\ (~tx[m].cacheFailed /\ tx'[m].cacheFailed) =>
                /\ tx'[m].error = ""
                /\ tx'[m].pc = IF tx[m].op = "remove" THEN "committed" ELSE "cleared"
                /\ rows' = rows
                /\ tx[m].op = "remove" => tx'[m].committed
          /\ (tx[m].cacheFailed /\ tx'[m].cacheFailed /\ tx'[m].pc # tx[m].pc) =>
                \/ tx'[m].pc = "committed" /\ tx'[m].error = "" /\ rows' = tx[m].row
                \/ tx'[m].pc = "rolledBack" /\ tx'[m].error = "commit" ]_vars

\* the backend was down while update cleared the caches, and the update is
\* committed
C32_Witness ==
    \E m \in 1..MaxMutators :
        /\ tx[m].op = "update"
        /\ tx[m].cacheFailed
        /\ tx[m].pc = "committed"
        /\ rows.version > 0

\* C33: when taskQueue.add fails in create or update the call raises; what
\* a call of create or update that has raised wanted to write never reaches
\* the row, and no call commits a change of the status without having
\* added its job.
C33_StatusChangesComeWithTheirJob ==
    [][\A m \in 1..MaxMutators :
          tx'[m].op \in { "create", "update" } /\ tx'[m] # tx[m] =>
              /\ tx'[m].error = "queue" => tx'[m].pc = "rolledBack"
              /\ tx'[m].pc = "rolledBack" => rows' = rows /\ ~tx'[m].committed
              /\ (tx'[m].pc = "committed" /\ tx[m].pc = "cleared"
                   /\ rows'.status # rows.status) => tx[m].enqueued ]_vars

\* C34: the job of a committed update never replaces the stored status by
\* another one: when it runs, its status is the one that the last committed
\* update has written, in whatever order the jobs are taken.
C34_JobsNeverChangeTheStatus ==
    [][\A m \in 1..MaxMutators :
          (tx[m].committed /\ tx[m].worked = "no" /\ tx'[m].worked = "updated") =>
              rows'.status = rows.status ]_vars

\* C37: once an update and the cached reads that ran beside it have all
\* finished, the cache holds for the task either no entry or the task as
\* the update left it; a read that computed before the commit does not leave
\* its result behind.
C37_NoStaleEntryAfterUpdateAndReads ==
    \A m \in 1..MaxMutators :
        (/\ tx[m].op = "update"
         /\ tx[m].pc = "committed"
         /\ \A c \in 1..MaxCallers : reader[c].pc \in { "idle", "returned", "raised" }) =>
            \A request \in { r \in Requests : r.fn = "findOne" } :
                LET call == Serve(request, rows)
                    name == Stored(buildKey(call.cacheKey, call.options.namespace))
                IN  name \in DOMAIN cache =>
                        /\ cache[name].value.json.type = "Task"
                        /\ cache[name].value.json.version >= rows.version

\* C35: once every run that was started has returned, this.processBatch is
\* the original implementation again: no wrapper of a trigger is left in it.
C35_WrappersAreRemoved ==
    (\A r \in Runs : scans[r].pc \in { "idle", "done" }) => thisProcessBatch = <<>>

\* C36: a manual trigger returns the counts of its own run, also when
\* another run overlaps it: processed is the number of records that its run
\* has fetched, queued the number that its run has added.
C36_TriggerCountsItsOwnRun ==
    \A r \in Runs :
        (scans[r].kind = "manual" /\ scans[r].pc = "done") =>
            /\ scans[r].result.processed = scans[r].fetched
            /\ scans[r].result.queued = Len(scans[r].enqueued)

\* C38: a run that ends without a failure has enqueued every record that
\* was overdue and to do during the whole run, also when other records
\* changed their status between its fetches.
C38_NoRecordSkipped ==
    \A r \in Runs :
        (scans[r].pc = "done" /\ scans[r].outcome = "completed" /\ faults = 0) =>
            \A id \in DOMAIN store :
                Overdue(id, scans[r].now) => id \in Range(scans[r].enqueued)

====
